---- MODULE Spec2Model ----
(***************************************************************************)
(* Driver-log compliance engine of dq-checker.                             *)
(*                                                                         *)
(*  - the hours engine: parseLogsAcrossWorkbooks (src/app/page.tsx), its   *)
(*    segmentation loop, tail closure and finalizeAndPush (hours and meal  *)
(*    breaks) for one driver's merged timeline;                            *)
(*  - the certification-gap evaluator's shift detection: detectShiftStarts *)
(*    (src/app/components/UncertifiedDQChecker.tsx).                       *)
(*                                                                         *)
(* Time is in milliseconds, as in the code (Date.getTime()).               *)
(***************************************************************************)
EXTENDS Integers, Sequences, FiniteSets, TLC

(* ------------------------------------------------------------------ *)
(* Program constants                                                   *)
(* ------------------------------------------------------------------ *)
NEAR_RESET_GRACE_MIN == 30
MAX_SHIFT_HOURS_FLAG == 18
MAX_CONT_ON_HOURS_FLAG == 14
MIN_LAYOVER_HOURS == 2
MIN_LAYOVER_MS == MIN_LAYOVER_HOURS * 3600000

TEN_HOURS_MS == 10 * 60 * 60 * 1000
NEAR_RESET_MS == NEAR_RESET_GRACE_MIN * 60 * 1000
START_BREAK_MIN_MS == TEN_HOURS_MS - NEAR_RESET_MS
MAX_SHIFT_MS_FLAG == MAX_SHIFT_HOURS_FLAG * 3600000
MAX_CONT_ON_MS_FLAG == MAX_CONT_ON_HOURS_FLAG * 3600000
MEAL_REQ_MS == 30 * 60 * 1000

BLIP_MAX_MIN == 10
CERT_WINDOW_MIN == 60
LOOKBACK_DAYS == 60
BLIP_MAX_MS == BLIP_MAX_MIN * 60000

ON_SET == {"ON", "ON DUTY", "ONDUTY", "ON-DUTY", "ON_DUTY"}
D_SET == {"D", "DRIVE", "DRIVING"}
OFF_SET == {"OFF"}
SB_SET == {"SB", "SLEEPER", "SLEEPER BERTH", "SLEEPER_BERTH"}
isOnOrD(s) == s \in ON_SET \/ s \in D_SET
isOffOrSb(s) == s \in OFF_SET \/ s \in SB_SET

(* ------------------------------------------------------------------ *)
(* Helpers                                                             *)
(* ------------------------------------------------------------------ *)
Max(a, b) == IF a >= b THEN a ELSE b
Min(a, b) == IF a <= b THEN a ELSE b

\* Math.round(ms / 60000) for ms >= 0: nearest minute, halves up.
RoundMin(ms) == (ms + 30000) \div 60000

\* "no Date" (null)
NoTs == -1

\* the wall clock before run reads it
NoNow == [day |-> 0, ms |-> 0]

(* ------------------------------------------------------------------ *)
(* Input: the rows of one driver's sheet                               *)
(* ------------------------------------------------------------------ *)
\* Longest sheet of the general inputs, longest shift body of the meal
\* sheets.
MaxLen == 4
MaxBody == 4

\* Status cells "Duty Status - X" as extractStatusFromEvent returns them.
InputStatuses == {"ON", "D", "OFF", "SB"}

\* A row's status and whether isNearHome(row.Location) holds (it is read
\* for OFF rows only).
Kinds ==
  {<<s, FALSE>> : s \in InputStatuses} \cup {<<"OFF", TRUE>>}

\* Gaps between consecutive rows of the general sheets: half a minute,
\* half a minute short of the 9h30m threshold, and the threshold.
Gaps == {30000, START_BREAK_MIN_MS - 30000, START_BREAK_MIN_MS}

Evt(t, k) == [ts |-> t, status |-> k[1], home |-> k[2]]

\* Rows 1..n at the timestamps the gaps give (gaps[j] lies between row j
\* and row j+1).
RECURSIVE TsOf(_, _)
TsOf(gaps, j) == IF j = 1 THEN 0 ELSE TsOf(gaps, j - 1) + gaps[j - 1]

RECURSIVE MkArr(_, _, _)
MkArr(gaps, kinds, n) ==
  IF n = 0 THEN <<>>
  ELSE Append(MkArr(gaps, kinds, n - 1), Evt(TsOf(gaps, n), kinds[n]))

\* Rows from segments <<status, duration>>: row j starts where row j-1 ends.
RECURSIVE SegStart(_, _, _)
SegStart(t0, segs, j) ==
  IF j = 1 THEN t0 ELSE SegStart(t0, segs, j - 1) + segs[j - 1][2]

RECURSIVE SegRows(_, _, _)
SegRows(t0, segs, n) ==
  IF n = 0 THEN <<>>
  ELSE Append(SegRows(t0, segs, n - 1),
              Evt(SegStart(t0, segs, n), <<segs[n][1], FALSE>>))

\* Segments of the meal sheets' shift body.
MealSegs ==
  { <<"ON", 60 * 60000>>, <<"ON", 120 * 60000>>, <<"ON", 100 * 60000>>,
    <<"D", 240 * 60000>>, <<"D", 360 * 60000>>,
    <<"OFF", 20 * 60000>>, <<"OFF", 30 * 60000>>, <<"OFF", 35 * 60000>>,
    <<"SB", 35 * 60000>> }

\* How a meal sheet ends after the shift body: the data ends with an OFF
\* row, the data ends with an ON row, or a 10h rest is followed by ON.
Closings == {"eofOff", "eofOn", "rest"}

\* OFF at 22:00 (t = 0), then the shift body from 08:00 on, then the closing.
MealSheet(segs, n, closing) ==
  LET body == SegRows(TEN_HOURS_MS, segs, n)
      tEnd == SegStart(TEN_HOURS_MS, segs, n) + segs[n][2]
  IN <<Evt(0, <<"OFF", FALSE>>)>> \o body \o
     (IF closing = "eofOff" THEN <<Evt(tEnd, <<"OFF", FALSE>>)>>
      ELSE IF closing = "eofOn" THEN <<Evt(tEnd, <<"ON", FALSE>>)>>
      ELSE <<Evt(tEnd, <<"OFF", FALSE>>),
             Evt(tEnd + TEN_HOURS_MS, <<"ON", FALSE>>)>>)

\* Two-break sheets: DRIVING d1, rest r1, DRIVING d2, rest r2, ON d3.
TwoBreakDuty == {4 * 3600000, 5 * 3600000, 6 * 3600000}
TwoBreakRests ==
  { <<"OFF", 20 * 60000>>, <<"OFF", 30 * 60000>>, <<"OFF", 30 * 60000 + 40000>>,
    <<"SB", 35 * 60000>> }
TwoBreakLast == {3600000, 3 * 3600000, 6 * 3600000}

\* Two workbooks holding a sheet of the same driver, each of up to
\* MaxBookRows rows in any order, at 0:00 or 9:30.
MaxBookRows == 2
BookTimes == {0, START_BREAK_MIN_MS}
BookStatuses == {"OFF", "ON", "D"}
BookCells == {Evt(t, <<st, FALSE>>) : t \in BookTimes, st \in BookStatuses}

\* Closing sheets: OFF 0:00, ON 10:00 (a shift is active), then a rest block
\* from 11:00 whose second entry r2 lies inner after its first (none when
\* inner = 0), ended by the duty row w2 after total.
RestInners ==
  {0, 5 * 3600000, START_BREAK_MIN_MS - 60000, START_BREAK_MIN_MS + 10 * 60000}
RestTotals ==
  {START_BREAK_MIN_MS, START_BREAK_MIN_MS + 10 * 60000, TEN_HOURS_MS - 30000,
   TEN_HOURS_MS, TEN_HOURS_MS + 5 * 3600000}
RestBlockSheet(r1, r2, inner, total, w2) ==
  LET t0 == TEN_HOURS_MS + 3600000
  IN <<Evt(0, <<"OFF", FALSE>>), Evt(TEN_HOURS_MS, <<"ON", FALSE>>),
       Evt(t0, <<r1, FALSE>>)>> \o
     (IF inner = 0 THEN <<>> ELSE <<Evt(t0 + inner, <<r2, FALSE>>)>>) \o
     <<Evt(t0 + total, <<w2, FALSE>>)>>

\* Rest sheets: a rest of total length total from r1 on, holding one duty
\* excursion of length exc at 5h, ended by the duty row w2; optionally a
\* shift is already active when the rest begins, and a row follows w2.
BlipExcursions == {5 * 60000, 10 * 60000, 10 * 60000 + 1000, 20 * 60000}
BlipTotals ==
  {START_BREAK_MIN_MS - 60000, START_BREAK_MIN_MS,
   START_BREAK_MIN_MS + 15 * 60000, TEN_HOURS_MS + 5 * 3600000}
BlipTails == {0, 5 * 60000, 60 * 60000}

BlipSheet(r1, w, exc, r2, total, w2, pre, tail) ==
  LET t0 == IF pre THEN TEN_HOURS_MS + 3600000 ELSE 0
      x == t0 + 5 * 3600000
  IN (IF pre
      THEN <<Evt(0, <<"OFF", FALSE>>), Evt(TEN_HOURS_MS, <<"ON", FALSE>>)>>
      ELSE <<>>) \o
     <<Evt(t0, <<r1, FALSE>>), Evt(x, <<w, FALSE>>),
       Evt(x + exc, <<r2, FALSE>>), Evt(t0 + total, <<w2, FALSE>>)>> \o
     (IF tail = 0 THEN <<>>
      ELSE <<Evt(t0 + total + tail, <<"OFF", FALSE>>)>>)

\* Overlapping exports: a sheet of up to MaxOverlapLen rows, the first an
\* OFF row at 0:00, exported twice: rows 1..b in one workbook and rows a..n
\* in the other, with a <= b.  Rows of one sheet may share a timestamp.
MaxOverlapLen == 4
OverlapGaps == {0, 5 * 60000, START_BREAK_MIN_MS}
OverlapKinds == {<<"OFF", FALSE>>, <<"D", FALSE>>, <<"SB", FALSE>>}
OverlapBooks(base, a, b) == <<SubSeq(base, 1, b), SubSeq(base, a, Len(base))>>

\* Sheets with a record that carries no duty status: OFF 0:00, ON 10:00,
\* OFF 11:01 for the length rest, DRIVING for 61 minutes, OFF; the record
\* (Event "Duty Status - YM") lies off after row k.
FillerRests == {30 * 60000, 2 * 3600000, TEN_HOURS_MS}
FillerOffsets == {15 * 60000, 30 * 60000 + 30000, START_BREAK_MIN_MS + 5 * 60000}
FillerBase(rest) ==
  LET t1 == TEN_HOURS_MS + 61 * 60000
  IN <<Evt(0, <<"OFF", FALSE>>), Evt(TEN_HOURS_MS, <<"ON", FALSE>>),
       Evt(t1, <<"OFF", FALSE>>), Evt(t1 + rest, <<"D", FALSE>>),
       Evt(t1 + rest + 61 * 60000, <<"OFF", FALSE>>)>>
FillerSheet(rest, k, off) ==
  LET base == FillerBase(rest)
  IN SubSeq(base, 1, k) \o <<Evt(base[k].ts + off, <<"YM", FALSE>>)>>
       \o SubSeq(base, k + 1, Len(base))

\* Sheets whose Event cells spell the statuses out ("Duty Status -
\* DRIVING"): OFF 0:00, w1 10:00, r 15:00 for the length rest, w2 for two
\* hours, OFF.
AliasWork == {"ON", "ONDUTY", "D", "DRIVE", "DRIVING"}
AliasRest == {"OFF", "SB", "SLEEPER"}
AliasRests == {30 * 60000, TEN_HOURS_MS}
AliasSheet(w1, r, rest, w2) ==
  LET t1 == TEN_HOURS_MS + 5 * 3600000
  IN <<Evt(0, <<"OFF", FALSE>>), Evt(TEN_HOURS_MS, <<w1, FALSE>>),
       Evt(t1, <<r, FALSE>>), Evt(t1 + rest, <<w2, FALSE>>),
       Evt(t1 + rest + 2 * 3600000, <<"OFF", FALSE>>)>>

\* line 762: evts.sort by timestamp (stable)
RECURSIVE SortByTs(_)
SortByTs(evts) ==
  IF Len(evts) <= 1 THEN evts
  ELSE LET rest == SortByTs(SubSeq(evts, 1, Len(evts) - 1))
           e == evts[Len(evts)]
           RECURSIVE Ins(_)
           Ins(k) == IF k = 0 \/ rest[k].ts <= e.ts
                     THEN SubSeq(rest, 1, k) \o <<e>> \o SubSeq(rest, k + 1, Len(rest))
                     ELSE Ins(k - 1)
       IN Ins(Len(rest))

\* lines 763-771: of rows with one timestamp only the first is kept
RECURSIVE Dedup(_)
Dedup(evts) ==
  IF Len(evts) <= 1 THEN evts
  ELSE LET front == Dedup(SubSeq(evts, 1, Len(evts) - 1))
           e == evts[Len(evts)]
       IN IF front[Len(front)].ts = e.ts THEN front ELSE Append(front, e)

(* ------------------------------------------------------------------ *)
(* State                                                               *)
(* ------------------------------------------------------------------ *)
\* no check was run before
NoPrior == [ran |-> FALSE, books |-> <<>>, rows |-> <<>>]

VARIABLES
  books,          \* the sheets of the driver, one per workbook, as lists of rows
  timeline,       \* TL[]: ts, eff, home (isNearHome of the row's Location)
  pc,             \* "start" | "loop" | "done": position in parseLogsAcrossWorkbooks
  i,              \* loop index (1-based)
  inOff, offStart, offHome, offKind,
  shiftActive, shiftStart,
  payableMin, sleeperMin, layoverMin,
  maxOnStreakMs, curOnStreakMs,
  results,        \* rows pushed by finalizeAndPush
  opened,         \* history: timestamps at which the loop opened a shift
  dqpc,           \* "idle" | "done" | "ran": the certification-gap evaluator
  starts,         \* detectShiftStarts(events) once computed
  now,            \* run: new Date(), as [day, ms] (calendar day, time of day)
  out,            \* run: the verdict rows once computed
  prior           \* history: the workbooks and rows of the check run before

vars ==
  <<books, timeline, pc, i, inOff, offStart, offHome, offKind, shiftActive,
    shiftStart, payableMin, sleeperMin, layoverMin, maxOnStreakMs,
    curOnStreakMs, results, opened, dqpc, starts, now, out, prior>>

\* lines 784-790: forward fill of the last duty status.
isDuty(s) == s \in OFF_SET \/ s \in ON_SET \/ s \in D_SET \/ s \in SB_SET

RECURSIVE LastDuty(_, _)
LastDuty(arr, j) ==
  IF j = 0 THEN ""
  ELSE IF isDuty(arr[j].status) THEN arr[j].status
  ELSE LastDuty(arr, j - 1)

RECURSIVE BuildPrefix(_, _)
BuildPrefix(arr, n) ==
  IF n = 0 THEN <<>>
  ELSE Append(BuildPrefix(arr, n - 1),
              [ts |-> arr[n].ts, eff |-> LastDuty(arr, n), home |-> arr[n].home])

BuildTimeline(arr) == BuildPrefix(arr, Len(arr))

(* ------------------------------------------------------------------ *)
(* finalizeAndPush (page.tsx 822-1000)                                 *)
(* ------------------------------------------------------------------ *)
\* line 893: the statuses whose time advances the meal-deadline accumulator
DeadlineCountsOff(s) == s = "ON" \/ s = "D" \/ s = "OFF"
DeadlineCounts(s) == s = "ON" \/ s = "D"

\* lines 883-902
onDutyDeadline(limitHours, start, end) ==
  LET limitMs == limitHours * 3600000
      RECURSIVE Walk(_, _)
      Walk(j, acc) ==
        IF j > Len(timeline) - 1 THEN end
        ELSE
          LET cur == timeline[j]
              next == timeline[j + 1]
          IN IF next.ts <= start \/ cur.ts >= end THEN Walk(j + 1, acc)
             ELSE
               LET segStart == Max(cur.ts, start)
                   segEnd == Min(next.ts, end)
                   segMs == Max(0, segEnd - segStart)
               IN IF DeadlineCounts(cur.eff)
                  THEN IF acc + segMs >= limitMs
                       THEN segStart + Max(0, limitMs - acc)
                       ELSE Walk(j + 1, acc + segMs)
                  ELSE Walk(j + 1, acc)
  IN Walk(1, 0)

\* line 920: the segments that can be a meal break
IsMealSeg(s) == s = "OFF"

\* lines 909-923: the OFF segments clipped to [start, end), in timeline order
offSegsOf(start, end) ==
  LET RECURSIVE Walk(_)
      Walk(j) ==
        IF j > Len(timeline) - 1 THEN <<>>
        ELSE
          LET cur == timeline[j]
              next == timeline[j + 1]
              segStart == Max(cur.ts, start)
              segEnd == Min(next.ts, end)
              skip == \/ segEnd <= segStart
                      \/ cur.ts >= end \/ next.ts <= start
                      \/ (cur.ts < start /\ next.ts <= start)
          IN IF ~skip /\ IsMealSeg(cur.eff)
             THEN <<[start |-> segStart, end |-> segEnd,
                     ms |-> Max(0, segEnd - segStart)]>> \o Walk(j + 1)
             ELSE Walk(j + 1)
  IN Walk(1)

\* Array.prototype.find over indexes: the first index whose flag is set, or 0
FindFirst(hits) ==
  IF \E k \in DOMAIN hits : hits[k]
  THEN CHOOSE k \in DOMAIN hits : hits[k] /\ \A m \in 1..(k - 1) : ~hits[m]
  ELSE 0

\* line 932: a segment qualifies as the first break
IsFirstBreakAtDeadline(s, deadline5) == s.start <= deadline5 /\ s.ms >= MEAL_REQ_MS
IsFirstBreak(s, deadline5) == s.start < deadline5 /\ s.ms >= MEAL_REQ_MS

\* line 939-941: a segment other than the first break qualifies as the
\* second break; firstStart is NoTs when no first break was found
IsSecondBreakAtDeadline(s, firstStart, deadline10) ==
  /\ s.start <= deadline10
  /\ s.ms >= MEAL_REQ_MS
  /\ (firstStart = NoTs \/ s.start > firstStart)
IsSecondBreak(s, firstStart, deadline10) ==
  /\ s.start < deadline10
  /\ s.ms >= MEAL_REQ_MS
  /\ (firstStart = NoTs \/ s.start > firstStart)

\* line 905: two breaks are needed
NeedTwoFromTwelve(onDutyMs) == onDutyMs >= 12 * 60 * 60 * 1000
NeedTwo(onDutyMs) == onDutyMs > 12 * 60 * 60 * 1000

\* line 928: no break is needed
NoBreakRequired(onDutyMs) == onDutyMs < 6 * 3600000

\* lines 816-820: HH:mm of a timestamp (t = 0 is a local midnight)
fmtHM(d) == <<(d \div 3600000) % 24, (d \div 60000) % 60>>

\* lines 964-967: one part of a compliant note, "1st HH:mm (Nm)"
NotePart(s) == [hm |-> fmtHM(s.start), min |-> RoundMin(s.ms)]

\* (payableMin / 60).toFixed(2), in hundredths of an hour
HoursFixed2(min) == (min * 100 + 30) \div 60

\* lines 822-1000. note is "" when opts.note is absent; the row keeps the
\* meal deadlines it computed (the code prints them in the "Late" notes).
finalizeAndPush(end, note, shortBy, extraLayoverMin) ==
  LET start == shiftStart
      durationMin == RoundMin(end - start)
      onDutyMs == payableMin * 60 * 1000
      needTwo == NeedTwo(onDutyMs)
      deadline5 == IF onDutyMs >= 6 * 3600000
                   THEN onDutyDeadline(5, start, end) ELSE end
      deadline10 == IF needTwo THEN onDutyDeadline(10, start, end) ELSE end
      offSegs == offSegsOf(start, end)
      n == Len(offSegs)
      required == ~NoBreakRequired(onDutyMs)
      firstBreak ==
        IF required
        THEN FindFirst([k \in 1..n |-> IsFirstBreak(offSegs[k], deadline5)])
        ELSE 0
      secondBreak ==
        IF required /\ needTwo
        THEN FindFirst([k \in 1..n |->
               /\ k # firstBreak
               /\ IsSecondBreak(offSegs[k],
                                IF firstBreak = 0 THEN NoTs
                                ELSE offSegs[firstBreak].start,
                                deadline10)])
        ELSE 0
      lateFirst == FindFirst([k \in 1..n |-> offSegs[k].ms >= MEAL_REQ_MS])
      lateSecond ==
        FindFirst([k \in 1..n |->
               /\ k # firstBreak
               /\ offSegs[k].ms >= MEAL_REQ_MS
               /\ (firstBreak = 0 \/ offSegs[k].start > offSegs[firstBreak].start)])
      mealStatus ==
        IF ~required THEN "Compliant"
        ELSE IF firstBreak = 0 THEN "Violation"
        ELSE IF needTwo /\ secondBreak = 0 THEN "Violation"
        ELSE "Compliant"
      mealNotes ==
        IF ~required THEN "No break required (<6h on-duty)"
        ELSE IF firstBreak = 0
             THEN (IF lateFirst # 0 THEN "Late 1st"
                   ELSE "No 1st 30-min OFF before 5th on-duty hour")
        ELSE IF needTwo /\ secondBreak = 0
             THEN (IF lateSecond # 0 THEN "Late 2nd"
                   ELSE "No 2nd 30-min OFF before 10th on-duty hour")
        ELSE IF needTwo /\ secondBreak # 0 THEN "1st 2nd" ELSE "1st"
      mealParts ==
        IF ~required \/ firstBreak = 0 \/ (needTwo /\ secondBreak = 0) THEN <<>>
        ELSE <<NotePart(offSegs[firstBreak])>> \o
             (IF needTwo /\ secondBreak # 0
              THEN <<NotePart(offSegs[secondBreak])>> ELSE <<>>)
  IN [ start |-> start,
       end |-> end,
       durationMin |-> durationMin,
       payableMin |-> payableMin,
       payableHours |-> HoursFixed2(payableMin),
       sleeperMin |-> sleeperMin,
       layoverTotalMin |-> layoverMin + extraLayoverMin,
       mealStatus |-> mealStatus,
       mealNotes |-> mealNotes,
       mealParts |-> mealParts,
       needTwo |-> needTwo,
       deadline5 |-> deadline5,
       deadline10 |-> deadline10,
       offSegs |-> offSegs,
       firstBreak |-> firstBreak,
       secondBreak |-> secondBreak,
       note |-> note,
       shortBy |-> shortBy,
       longShift |-> durationMin * 60000 > MAX_SHIFT_MS_FLAG,
       contOn |-> maxOnStreakMs > MAX_CONT_ON_MS_FLAG ]

(* ------------------------------------------------------------------ *)
(* The segmentation loop (page.tsx 1002-1077)                          *)
(* ------------------------------------------------------------------ *)
NOTE_NEAR == "Near reset: short by"
NOTE_NEAR_EOD == "Near reset (end of data): short by"
NOTE_EOF_OFF == "End-of-file: closing shift at start of OFF/SB (duration after file unknown)"
NOTE_EOF_ON == "End-of-file: still ON/DRIVING - closed at last event"

\* line 985: results.push(row)
PushRowFront(rs, row) == <<row>> \o rs
PushRow(rs, row) == Append(rs, row)

\* line 1015: the entries that belong to a rest block
IsRestEffOffOnly(s) == s = "OFF"
IsRestEff(s) == s = "OFF" \/ s = "SB"

\* lines 1024, 1032: the rest so far ends the active shift
ClosesShiftStrict(offDur) == offDur > START_BREAK_MIN_MS
ClosesShift(offDur) == offDur >= TEN_HOURS_MS \/ offDur >= START_BREAK_MIN_MS

\* line 1051: the rest block that just ended opens a shift
OpensShiftStrict(gap) == gap > START_BREAK_MIN_MS
OpensShift(gap) == gap >= START_BREAK_MIN_MS

\* lines 1070-1075: what one segment adds to the active shift
PayableAddAll(eff, segMin) == segMin
PayableAddShortRest(eff, segMin) ==
  IF isOnOrD(eff) \/ segMin < 30 THEN segMin ELSE 0
PayableAdd(eff, segMin) == IF isOnOrD(eff) THEN segMin ELSE 0
SleeperAdd(eff, segMin) == IF eff = "SB" THEN segMin ELSE 0
LayoverAdd(eff, home, segMs, segMin) ==
  IF eff = "OFF" /\ ~home /\ segMs >= MIN_LAYOVER_MS THEN segMin ELSE 0

\* lines 1025-1028, 1034-1037: layover credited for the closing rest block
ExtraLayover(kind, home, offDur) ==
  IF kind = "OFF" /\ offDur >= MIN_LAYOVER_MS /\ ~home
  THEN RoundMin(offDur) ELSE 0

HasNext == i < Len(timeline)
SegMs == IF HasNext THEN Max(0, timeline[i + 1].ts - timeline[i].ts) ELSE 0

\* One iteration at an OFF/SB entry (lines 1015-1045, then 1068-1076).
LoopOff ==
  /\ pc = "loop"
  /\ i <= Len(timeline)
  /\ IsRestEff(timeline[i].eff)
  /\ LET cur == timeline[i]
         segMin == RoundMin(SegMs)
         offStart1 == IF inOff THEN offStart ELSE cur.ts
         offHome1 == IF inOff THEN offHome ELSE cur.home
         offKind1 == IF inOff THEN offKind
                     ELSE IF cur.eff = "OFF" THEN "OFF" ELSE "SB"
         offDur == IF HasNext THEN timeline[i + 1].ts - offStart1 ELSE 0
         closes == shiftActive /\ HasNext /\ ClosesShift(offDur)
         near == closes /\ ~(offDur >= TEN_HOURS_MS)
         active1 == shiftActive /\ ~closes
         acc == active1 /\ HasNext
     IN /\ inOff' = TRUE
        /\ offStart' = offStart1
        /\ offHome' = offHome1
        /\ offKind' = offKind1
        /\ results' =
             IF closes
             THEN PushRow(results,
                    finalizeAndPush(offStart1,
                      IF near THEN NOTE_NEAR ELSE "",
                      IF near THEN TEN_HOURS_MS - offDur ELSE 0,
                      ExtraLayover(offKind1, offHome1, offDur)))
             ELSE results
        /\ shiftActive' = active1
        /\ payableMin' = payableMin + (IF acc THEN PayableAdd(cur.eff, segMin) ELSE 0)
        /\ sleeperMin' = sleeperMin + (IF acc THEN SleeperAdd(cur.eff, segMin) ELSE 0)
        /\ layoverMin' = layoverMin +
             (IF acc THEN LayoverAdd(cur.eff, cur.home, SegMs, segMin) ELSE 0)
  /\ curOnStreakMs' = (IF isOnOrD(timeline[i].eff) THEN curOnStreakMs + SegMs ELSE 0)
  /\ maxOnStreakMs' =
       (IF isOnOrD(timeline[i].eff) /\ curOnStreakMs + SegMs > maxOnStreakMs
        THEN curOnStreakMs + SegMs ELSE maxOnStreakMs)
  /\ i' = i + 1
  /\ UNCHANGED <<prior, now, out, books, timeline, pc, shiftStart, opened, dqpc, starts>>

\* One iteration at any other entry (lines 1046-1066, then 1068-1076).
LoopDuty ==
  /\ pc = "loop"
  /\ i <= Len(timeline)
  /\ ~IsRestEff(timeline[i].eff)
  /\ LET cur == timeline[i]
         segMin == RoundMin(SegMs)
         opens == inOff /\ offStart # NoTs /\ OpensShift(cur.ts - offStart)
         active1 == shiftActive \/ opens
         acc == active1 /\ HasNext
         streakCur == IF isOnOrD(cur.eff) THEN curOnStreakMs + SegMs ELSE 0
         streakMax == IF streakCur > maxOnStreakMs THEN streakCur ELSE maxOnStreakMs
     IN /\ inOff' = FALSE
        /\ offStart' = (IF inOff THEN NoTs ELSE offStart)
        /\ offHome' = (IF inOff THEN FALSE ELSE offHome)
        /\ offKind' = (IF inOff THEN "" ELSE offKind)
        /\ shiftActive' = active1
        /\ shiftStart' = (IF opens THEN cur.ts ELSE shiftStart)
        /\ opened' = (IF opens THEN Append(opened, cur.ts) ELSE opened)
        /\ payableMin' = (IF opens THEN 0 ELSE payableMin)
                         + (IF acc THEN PayableAdd(cur.eff, segMin) ELSE 0)
        /\ sleeperMin' = (IF opens THEN 0 ELSE sleeperMin)
                         + (IF acc THEN SleeperAdd(cur.eff, segMin) ELSE 0)
        /\ layoverMin' = (IF opens THEN 0 ELSE layoverMin)
                         + (IF acc THEN LayoverAdd(cur.eff, cur.home, SegMs, segMin) ELSE 0)
        /\ curOnStreakMs' = (IF opens THEN 0 ELSE streakCur)
        /\ maxOnStreakMs' = (IF opens THEN 0 ELSE streakMax)
  /\ i' = i + 1
  /\ UNCHANGED <<prior, now, out, books, timeline, pc, results, dqpc, starts>>

\* Tail closure at end of data (lines 1079-1107).
TailClose ==
  /\ pc = "loop"
  /\ i > Len(timeline)
  /\ LET last == timeline[Len(timeline)]
         tailOff == Max(0, last.ts - offStart)
         extra == IF tailOff >= MIN_LAYOVER_MS /\ ~offHome
                  THEN RoundMin(tailOff) ELSE 0
     IN results' =
          IF ~shiftActive THEN results
          ELSE IF IsRestEff(last.eff) /\ offStart # NoTs
          THEN IF tailOff >= TEN_HOURS_MS
               THEN PushRow(results, finalizeAndPush(offStart, "", 0, extra))
               ELSE IF tailOff >= START_BREAK_MIN_MS
               THEN PushRow(results,
                      finalizeAndPush(offStart, NOTE_NEAR_EOD,
                                      TEN_HOURS_MS - tailOff, extra))
               ELSE PushRow(results, finalizeAndPush(offStart, NOTE_EOF_OFF, 0, 0))
          ELSE PushRow(results, finalizeAndPush(last.ts, NOTE_EOF_ON, 0, 0))
  /\ pc' = "done"
  /\ UNCHANGED <<prior, now, out, books, timeline, i, inOff, offStart, offHome, offKind, shiftActive,
                 shiftStart, payableMin, sleeperMin, layoverMin,
                 maxOnStreakMs, curOnStreakMs, opened, dqpc, starts>>

(* ------------------------------------------------------------------ *)
(* The second copy of the engine (page.tsx 2187-2516)                  *)
(* ------------------------------------------------------------------ *)
\* lines 2380-2386: the violation notes name no late break
finalizeAndPushSecond(end, note, shortBy, extraLayoverMin) ==
  LET row == finalizeAndPush(end, note, shortBy, extraLayoverMin)
  IN [row EXCEPT !.mealNotes =
        IF @ = "Late 1st" THEN "No 1st 30-min OFF before 5th on-duty hour"
        ELSE IF @ = "Late 2nd" THEN "No 2nd 30-min OFF before 10th on-duty hour"
        ELSE @]

\* lines 2446-2447, 2453-2454: layover credited for the closing rest block
ExtraLayoverSecond(home, offDur) ==
  IF offDur >= MIN_LAYOVER_MS /\ ~home THEN RoundMin(offDur) ELSE 0

\* One iteration at an OFF/SB entry (lines 2425-2460, then 2483-2492).
LoopOffSecond ==
  /\ pc = "loop"
  /\ i <= Len(timeline)
  /\ isOffOrSb(timeline[i].eff)
  /\ LET cur == timeline[i]
         segMin == RoundMin(SegMs)
         offStart1 == IF inOff THEN offStart ELSE cur.ts
         offHome1 == IF inOff THEN offHome ELSE cur.home
         offDur == IF HasNext THEN timeline[i + 1].ts - offStart1 ELSE 0
         closes == shiftActive /\ HasNext /\ ClosesShift(offDur)
         near == closes /\ ~(offDur >= TEN_HOURS_MS)
         active1 == shiftActive /\ ~closes
         acc == active1 /\ HasNext
     IN /\ inOff' = TRUE
        /\ offStart' = offStart1
        /\ offHome' = offHome1
        /\ results' =
             IF closes
             THEN PushRow(results,
                    finalizeAndPushSecond(offStart1,
                      IF near THEN NOTE_NEAR ELSE "",
                      IF near THEN TEN_HOURS_MS - offDur ELSE 0,
                      ExtraLayoverSecond(offHome1, offDur)))
             ELSE results
        /\ shiftActive' = active1
        /\ payableMin' = payableMin + (IF acc THEN PayableAdd(cur.eff, segMin) ELSE 0)
        /\ sleeperMin' = sleeperMin + (IF acc THEN SleeperAdd(cur.eff, segMin) ELSE 0)
        /\ layoverMin' = layoverMin +
             (IF acc THEN LayoverAdd(cur.eff, cur.home, SegMs, segMin) ELSE 0)
  /\ curOnStreakMs' = (IF isOnOrD(timeline[i].eff) THEN curOnStreakMs + SegMs ELSE 0)
  /\ maxOnStreakMs' =
       (IF isOnOrD(timeline[i].eff) /\ curOnStreakMs + SegMs > maxOnStreakMs
        THEN curOnStreakMs + SegMs ELSE maxOnStreakMs)
  /\ i' = i + 1
  /\ UNCHANGED <<prior, now, out, books, timeline, pc, offKind, shiftStart, opened,
                 dqpc, starts>>

\* One iteration at any other entry (lines 2425-2436, 2461-2481, then 2483-2492).
LoopDutySecond ==
  /\ pc = "loop"
  /\ i <= Len(timeline)
  /\ ~isOffOrSb(timeline[i].eff)
  /\ LET cur == timeline[i]
         segMin == RoundMin(SegMs)
         opens == inOff /\ offStart # NoTs /\ OpensShift(cur.ts - offStart)
         active1 == shiftActive \/ opens
         acc == active1 /\ HasNext
         streakCur == IF isOnOrD(cur.eff) THEN curOnStreakMs + SegMs ELSE 0
         streakMax == IF streakCur > maxOnStreakMs THEN streakCur ELSE maxOnStreakMs
     IN /\ inOff' = FALSE
        /\ offStart' = (IF inOff THEN NoTs ELSE offStart)
        /\ offHome' = (IF inOff THEN FALSE ELSE offHome)
        /\ shiftActive' = active1
        /\ shiftStart' = (IF opens THEN cur.ts ELSE shiftStart)
        /\ opened' = (IF opens THEN Append(opened, cur.ts) ELSE opened)
        /\ payableMin' = (IF opens THEN 0 ELSE payableMin)
                         + (IF acc THEN PayableAdd(cur.eff, segMin) ELSE 0)
        /\ sleeperMin' = (IF opens THEN 0 ELSE sleeperMin)
                         + (IF acc THEN SleeperAdd(cur.eff, segMin) ELSE 0)
        /\ layoverMin' = (IF opens THEN 0 ELSE layoverMin)
                         + (IF acc THEN LayoverAdd(cur.eff, cur.home, SegMs, segMin) ELSE 0)
        /\ curOnStreakMs' = (IF opens THEN 0 ELSE streakCur)
        /\ maxOnStreakMs' = (IF opens THEN 0 ELSE streakMax)
  /\ i' = i + 1
  /\ UNCHANGED <<prior, now, out, books, timeline, pc, offKind, results, dqpc, starts>>

\* Tail closure at end of data (lines 2495-2512): a row is pushed only when
\* a rest block is open and has lasted at least 9h30m.
TailCloseSecond ==
  /\ pc = "loop"
  /\ i > Len(timeline)
  /\ LET last == timeline[Len(timeline)]
         tailOff == last.ts - offStart
         extra == IF tailOff >= MIN_LAYOVER_MS /\ ~offHome
                  THEN RoundMin(tailOff) ELSE 0
     IN results' =
          IF ~(shiftActive /\ offStart # NoTs) THEN results
          ELSE IF tailOff >= TEN_HOURS_MS
          THEN PushRow(results, finalizeAndPushSecond(offStart, "", 0, extra))
          ELSE IF tailOff >= START_BREAK_MIN_MS
          THEN PushRow(results,
                 finalizeAndPushSecond(offStart, NOTE_NEAR_EOD,
                                       TEN_HOURS_MS - tailOff, extra))
          ELSE results
  /\ pc' = "done"
  /\ UNCHANGED <<prior, now, out, books, timeline, i, inOff, offStart, offHome, offKind,
                 shiftActive, shiftStart, payableMin, sleeperMin, layoverMin,
                 maxOnStreakMs, curOnStreakMs, opened, dqpc, starts>>

(* ------------------------------------------------------------------ *)
(* Certification-gap evaluator: detectShiftStarts                      *)
(* (UncertifiedDQChecker.tsx 337-396)                                  *)
(* ------------------------------------------------------------------ *)
isOffish(s) == s = "OFF" \/ s = "SB"
isWork(s) == s = "ON" \/ s = "D"

\* line 369: a duty excursion short enough to be absorbed into the block
IsBlipStrict(durMs) == durMs < BLIP_MAX_MS
IsBlip(durMs) == durMs <= BLIP_MAX_MS

\* lines 353-378: the inner scan from k; the value is endIndex
RECURSIVE BlockScan(_, _, _)
BlockScan(events, k, endIndex) ==
  IF ~(k < Len(events)) THEN endIndex
  ELSE
    LET a == events[k]
        b == events[k + 1]
        durMs == Max(0, b.ts - a.ts)
    IN IF isOffish(a.status) THEN BlockScan(events, k + 1, k + 1)
       ELSE IF isWork(a.status)
       THEN LET prevIsOff == IF k - 1 >= 1 THEN isOffish(events[k - 1].status)
                             ELSE FALSE
                nextIsOff == isOffish(b.status)
            IN IF prevIsOff /\ nextIsOff /\ IsBlip(durMs)
               THEN BlockScan(events, k + 1, k + 1)
               ELSE endIndex
       ELSE endIndex

\* line 384: the block just scanned yields a shift start
DqStartsShift(blockMs) == blockMs >= TEN_HOURS_MS - NEAR_RESET_GRACE_MIN * 60000

\* lines 344-393: the outer loop from index i0
RECURSIVE DetectFrom(_, _, _)
DetectFrom(events, i0, acc) ==
  IF ~(i0 < Len(events)) THEN acc
  ELSE IF isOffish(events[i0].status)
  THEN LET endIndex == BlockScan(events, i0, i0)
           blockMs == Max(0, events[endIndex].ts - events[i0].ts)
           nextEvt == events[endIndex]
       IN DetectFrom(events, Max(i0 + 1, endIndex),
            IF DqStartsShift(blockMs) /\ isWork(nextEvt.status)
            THEN Append(acc, nextEvt.ts) ELSE acc)
  ELSE DetectFrom(events, i0 + 1, acc)

\* line 395: starts.sort ascending
RECURSIVE SortNums(_)
SortNums(q) ==
  IF Len(q) <= 1 THEN q
  ELSE LET rest == SortNums(SubSeq(q, 1, Len(q) - 1))
           e == q[Len(q)]
           RECURSIVE Ins(_)
           Ins(k) == IF k = 0 \/ rest[k] <= e
                     THEN SubSeq(rest, 1, k) \o <<e>> \o SubSeq(rest, k + 1, Len(rest))
                     ELSE Ins(k - 1)
       IN Ins(Len(rest))

detectShiftStarts(events) ==
  IF Len(events) = 0 THEN <<>> ELSE SortNums(DetectFrom(events, 1, <<>>))

\* buildBuckets 294-327: every row with a status becomes an event of the
\* driver's bucket, workbook after workbook; the events are sorted by time
\* and none is dropped.
RECURSIVE AllRows(_, _)
AllRows(bks, n) == IF n = 0 THEN <<>> ELSE AllRows(bks, n - 1) \o bks[n]

RECURSIVE StatusEvents(_, _)
StatusEvents(rows, n) ==
  IF n = 0 THEN <<>>
  ELSE Append(StatusEvents(rows, n - 1),
              [ts |-> rows[n].ts, status |-> rows[n].status])

BucketEvents(bks) ==
  LET rows == SelectSeq(AllRows(bks, Len(bks)), LAMBDA r : r.status # "")
  IN SortByTs(StatusEvents(rows, Len(rows)))

\* run, line 477, for the driver's bucket.
Detect ==
  /\ pc = "done"
  /\ dqpc = "idle"
  /\ starts' = detectShiftStarts(BucketEvents(books))
  /\ dqpc' = "done"
  /\ UNCHANGED <<prior, now, out, books, timeline, pc, i, inOff, offStart, offHome, offKind,
                 shiftActive, shiftStart, payableMin, sleeperMin, layoverMin,
                 maxOnStreakMs, curOnStreakMs, results, opened>>

(* ------------------------------------------------------------------ *)
(* Certification-gap evaluator: run (UncertifiedDQChecker.tsx 461-631) *)
(* ------------------------------------------------------------------ *)

DAY_MS == 24 * 3600000

\* line 220: the local calendar day of a timestamp.  Days are numbered from
\* the day of t = 0, so the order of the ISO strings is the order of the
\* numbers.
iso(ts) == ts \div DAY_MS

\* lines 245-248 with USE_NEXT_DAY_BOUNDARY = false
dateKey(ts) == iso(ts)

\* lines 306-318: a row is a certification when its text says so; the day
\* it certifies is the date found in the row, else the day before the row's
\* own timestamp.
IsCert(r) == "certFor" \in DOMAIN r
CertTarget(r) == IF r.certFor # NoTs THEN r.certFor ELSE iso(r.ts) - 1

\* lines 319-323: certByDate.get(y), the times at which day y was certified
certByDate(bks, y) ==
  LET rows == AllRows(bks, Len(bks))
  IN {rows[k].ts : k \in {j \in 1..Len(rows) :
                            IsCert(rows[j]) /\ CertTarget(rows[j]) = y}}

\* groupByDate 399-409: byDate.get(D)
EventsOn(events, D) == SelectSeq(events, LAMBDA e : dateKey(e.ts) = D)

RECURSIVE SortedDays(_)
SortedDays(S) ==
  IF S = {} THEN <<>>
  ELSE LET m == CHOOSE x \in S : \A y \in S : x <= y
       IN <<m>> \o SortedDays(S \ {m})

\* line 475: the day keys in ascending order
dayOrder(events) ==
  SortedDays({dateKey(events[k].ts) : k \in 1..Len(events)})

\* line 410
hasShift(arr) == \E k \in 1..Len(arr) : arr[k].status = "ON" \/ arr[k].status = "D"

\* line 411: the timestamp of the first event of the type, or none
firstOfType(arr, type) ==
  LET k == FindFirst([j \in 1..Len(arr) |-> arr[j].status = type])
  IN IF k = 0 THEN NoTs ELSE arr[k].ts

\* lines 412-424
lastShiftStartAtOrBefore(sts, t) ==
  LET c == {sts[k] : k \in {j \in 1..Len(sts) : sts[j] <= t}}
  IN IF c = {} THEN NoTs ELSE CHOOSE x \in c : \A y \in c : y <= x

\* line 442: a certification made at or before the cutoff counts
CertInTimeStrict(c, T) == c < T
CertInTime(c, T) == c <= T

\* lines 429-446
RECURSIVE MissingFrom(_, _, _, _, _)
MissingFrom(order, events, bks, T, k) ==
  IF k > Len(order) THEN <<>>
  ELSE IF order[k] >= iso(T) THEN <<>>
  ELSE LET y == order[k]
           rest == MissingFrom(order, events, bks, T, k + 1)
       IN IF ~hasShift(EventsOn(events, y)) THEN rest
          ELSE IF \E c \in certByDate(bks, y) : CertInTime(c, T) THEN rest
          ELSE <<y>> \o rest

missingPriorShiftDaysByTime(order, events, bks, T) ==
  MissingFrom(order, events, bks, T, 1)

\* lines 468-469 and 486-487: dayStart < addDays(now, -LOOKBACK_DAYS)
BeforeLookback(D, nw) ==
  \/ D < nw.day - LOOKBACK_DAYS
  \/ D = nw.day - LOOKBACK_DAYS /\ 0 < nw.ms

\* lines 520, 557, 589: shiftStarts.find(s => s > anchor)
nextStartAfter(sts, a) ==
  LET k == FindFirst([j \in 1..Len(sts) |-> sts[j] > a])
  IN IF k = 0 THEN NoTs ELSE sts[k]

\* lines 521, 558, 590
stillInSameShift(sts, a, T) ==
  nextStartAfter(sts, a) = NoTs \/ T < nextStartAfter(sts, a)

WithoutDay(missing, d) == SelectSeq(missing, LAMBDA y : y # d)

\* lines 517-525, 554-561, 585-594: the shift-start day is exempt while the
\* cutoff lies in the same shift.
ExemptStartDayNever(missing, sts, a, T) == missing

ExemptStartDay(missing, sts, a, T) ==
  IF a # NoTs /\ stillInSameShift(sts, a, T)
  THEN WithoutDay(missing, iso(a)) ELSE missing

\* lines 504-513
isContinuation(events, firstD, D) ==
  LET work == {events[k].ts : k \in {j \in 1..Len(events) :
                 isWork(events[j].status) /\ events[j].ts <= firstD}}
  IN work # {} /\ iso(CHOOSE x \in work : \A y \in work : y <= x) < D

\* lines 533-540, 569-576, 602-609.  details and verdict are the row's
\* "Event Details" and "Verdict"; key is the emit key's startISO; day,
\* branch, cutoff and missing record how the row was reached.
VerdictOfInverted(missing) ==
  IF Len(missing) > 0 THEN "Qualified" ELSE "Disqualified"

VerdictOf(missing) == IF Len(missing) > 0 THEN "Disqualified" ELSE "Qualified"

VerdictRow(a, label, missing, okText, T, D, branch) ==
  [details |-> [start |-> a,
                label |-> IF a # NoTs THEN "" ELSE label,
                count |-> Len(missing),
                earliest |-> IF Len(missing) > 0 THEN missing[1] ELSE NoTs,
                text |-> IF Len(missing) > 0 THEN "prior uncertified day(s)"
                         ELSE okText],
   verdict |-> VerdictOf(missing),
   key |-> IF a # NoTs THEN iso(a) ELSE NoTs,
   day |-> D, branch |-> branch, cutoff |-> T, missing |-> missing]

\* lines 498-500, 581-582: the cutoff is an event's own timestamp
CutoffAt(t) == t

\* line 551: the cutoff of an ON-only day on which a shift starts
CutoffPlusNoGrace(anchorToday) == anchorToday
CutoffPlus(anchorToday) == anchorToday + CERT_WINDOW_MIN * 60000

\* lines 489-610: the body of the loop over the days, for a day that has an
\* ON or a DRIVING event
DayRow(D, events, sts, bks) ==
  LET ev == EventsOn(events, D)
      order == dayOrder(events)
      firstON == firstOfType(ev, "ON")
      firstD == firstOfType(ev, "D")
      anchorRefTime == IF firstD # NoTs THEN firstD ELSE firstON
      anchorShiftStart == lastShiftStartAtOrBefore(sts, anchorRefTime)
      today == FindFirst([j \in 1..Len(sts) |-> iso(sts[j]) = D])
      anchorToday ==
        IF today # 0 THEN sts[today]
        ELSE IF anchorShiftStart # NoTs /\ iso(anchorShiftStart) = D
             THEN anchorShiftStart ELSE NoTs
  IN IF firstD # NoTs
     THEN LET cutoffTime == CutoffAt(firstD)
              missing == missingPriorShiftDaysByTime(order, events, bks, cutoffTime)
              filteredMissing ==
                IF isContinuation(events, firstD, D)
                THEN WithoutDay(missing, D - 1) ELSE missing
          IN VerdictRow(anchorShiftStart, "(unknown)",
                        ExemptStartDay(filteredMissing, sts, anchorShiftStart, cutoffTime),
                        "Certified before first DRIVING", cutoffTime, D, "driving")
     ELSE IF anchorToday # NoTs
     THEN LET plus == CutoffPlus(anchorToday)
              missingByPlus == missingPriorShiftDaysByTime(order, events, bks, plus)
          IN VerdictRow(anchorToday, "",
                        ExemptStartDay(missingByPlus, sts, anchorToday, plus),
                        "Cleared backlog within window", plus, D, "start")
     ELSE LET tempCutoff == CutoffAt(firstON)
              missingCont == missingPriorShiftDaysByTime(order, events, bks, tempCutoff)
          IN VerdictRow(anchorShiftStart, "(prior day)",
                        ExemptStartDay(missingCont, sts, anchorShiftStart, tempCutoff),
                        "All required prior days certified", tempCutoff, D,
                        "continuation")

\* lines 527-531, 563-567, 596-600: the emit guard
AlreadyEmitted(emitted, key) == key \in emitted

\* lines 482-611: the loop over the days of the driver's bucket
RECURSIVE RunDays(_, _, _, _, _, _, _)
RunDays(order, k, events, sts, bks, nw, emitted) ==
  IF k > Len(order) THEN <<>>
  ELSE LET D == order[k]
           ev == EventsOn(events, D)
       IN IF BeforeLookback(D, nw)
          THEN RunDays(order, k + 1, events, sts, bks, nw, emitted)
          ELSE IF firstOfType(ev, "ON") = NoTs /\ firstOfType(ev, "D") = NoTs
          THEN RunDays(order, k + 1, events, sts, bks, nw, emitted)
          ELSE LET r == DayRow(D, events, sts, bks)
               IN IF AlreadyEmitted(emitted, r.key)
                  THEN RunDays(order, k + 1, events, sts, bks, nw, emitted)
                  ELSE <<r>> \o RunDays(order, k + 1, events, sts, bks, nw,
                                        emitted \cup {r.key})

\* lines 614-622: rows with the same text are kept once
RECURSIVE uniq(_)
uniq(rows) ==
  IF Len(rows) = 0 THEN <<>>
  ELSE LET front == SubSeq(rows, 1, Len(rows) - 1)
           r == rows[Len(rows)]
       IN IF \E k \in 1..Len(front) :
               front[k].details = r.details /\ front[k].verdict = r.verdict
          THEN uniq(front) ELSE Append(uniq(front), r)

\* Wall-clock times of a run: one for which every day of the logs lies in
\* the look-back window, one whose look-back cutoff falls at noon of day 2.
Nows ==
  {[day |-> 30, ms |-> 12 * 3600000],
   [day |-> LOOKBACK_DAYS + 2, ms |-> 12 * 3600000]}

\* run, lines 468-469 and 482-624, for the driver's bucket.
Run ==
  /\ dqpc = "done"
  /\ \E nw \in Nows :
       /\ now' = nw
       /\ out' = uniq(RunDays(dayOrder(BucketEvents(books)), 1,
                              BucketEvents(books), starts, books, nw, {}))
  /\ dqpc' = "ran"
  /\ UNCHANGED <<prior, books, timeline, pc, i, inOff, offStart, offHome, offKind,
                 shiftActive, shiftStart, payableMin, sleeperMin, layoverMin,
                 maxOnStreakMs, curOnStreakMs, results, opened, starts>>

\* Sheets for the evaluator: a rest from 0:00 of day 0, then on each of the
\* days 1..3 one of the day plans, and for each of the days 1 and 2 at most
\* one certification row.
H == 60 * 60000

DayPlans ==
  {<<>>,
   <<<<8 * H, "ON">>, <<9 * H, "D">>, <<17 * H, "OFF">>>>,
   <<<<8 * H, "ON">>, <<12 * H, "OFF">>>>,
   <<<<22 * H, "ON">>>>,
   <<<<1 * H, "D">>, <<5 * H, "OFF">>>>,
   <<<<1 * H, "ON">>, <<5 * H, "OFF">>>>,
   <<<<H \div 2, "ON">>, <<2 * H, "OFF">>, <<12 * H, "D">>, <<20 * H, "OFF">>>>,
   <<<<23 * H + H \div 2, "ON">>, <<23 * H + 50 * 60000, "OFF">>>>}

RECURSIVE PlanRows(_, _, _)
PlanRows(plan, d, n) ==
  IF n = 0 THEN <<>>
  ELSE Append(PlanRows(plan, d, n - 1),
              Evt(d * DAY_MS + plan[n][1], <<plan[n][2], FALSE>>))

CertRow(t, d) == [ts |-> t, status |-> "", home |-> FALSE, certFor |-> d]

\* Certification rows for day d: none; one without a date in its text at
\* 1:00 of the next day; one at 9:00 of the next day; one a second later;
\* one at 1:00 of the day after.
CertPlans(d) ==
  {<<>>,
   <<CertRow((d + 1) * DAY_MS + H, NoTs)>>,
   <<CertRow((d + 1) * DAY_MS + 9 * H, d)>>,
   <<CertRow((d + 1) * DAY_MS + 9 * H + 1000, d)>>,
   <<CertRow((d + 2) * DAY_MS + H, d)>>}

CertSheet(p1, p2, p3, c1, c2) ==
  <<Evt(0, <<"OFF", FALSE>>)>>
    \o PlanRows(p1, 1, Len(p1)) \o PlanRows(p2, 2, Len(p2))
    \o PlanRows(p3, 3, Len(p3)) \o c1 \o c2

\* The timeline of one sheet's rows (lines 762-790: sort, de-dup, merge,
\* forward fill).
TimelineOf(rows) == BuildTimeline(SortByTs(Dedup(SortByTs(rows))))

\* lines 756-757: a row whose Event cell yields no status is skipped.
WithStatus(rows) == SelectSeq(rows, LAMBDA r : r.status # "")

\* lines 730-776 and 782: each workbook's sheet is sorted and de-duplicated
\* on its own, the results are appended in workbook order and sorted again.
RECURSIVE MergeBooks(_, _)
MergeBooks(bks, n) ==
  IF n = 0 THEN <<>>
  ELSE MergeBooks(bks, n - 1) \o Dedup(SortByTs(WithStatus(bks[n])))

TimelineOfBooks(bks) == BuildTimeline(SortByTs(MergeBooks(bks, Len(bks))))

StartLoopBooks(bks) ==
  /\ books' = bks
  /\ timeline' = TimelineOfBooks(bks)
  /\ pc' = "loop"
  /\ UNCHANGED <<prior, now, out, i, inOff, offStart, offHome, offKind, shiftActive,
                 shiftStart, payableMin, sleeperMin, layoverMin,
                 maxOnStreakMs, curOnStreakMs, results, opened, dqpc, starts>>

StartLoop(rows) ==
  /\ books' = <<rows>>
  /\ timeline' = TimelineOf(rows)
  /\ pc' = "loop"
  /\ UNCHANGED <<prior, now, out, i, inOff, offStart, offHome, offKind, shiftActive,
                 shiftStart, payableMin, sleeperMin, layoverMin,
                 maxOnStreakMs, curOnStreakMs, results, opened, dqpc, starts>>

\* Step 1 (lines 728-776) on a sheet of up to MaxLen rows.
CollectGeneral ==
  /\ pc = "start"
  /\ \E n \in 1..MaxLen :
       \E g \in [1..(n - 1) -> Gaps], k \in [1..n -> Kinds] :
         StartLoop(MkArr(g, k, n))

\* Step 1 on a sheet holding one shift with a body of up to MaxBody segments.
CollectMeal ==
  /\ pc = "start"
  /\ \E n \in 1..MaxBody :
       \E segs \in [1..n -> MealSegs], closing \in Closings :
         StartLoop(MealSheet(segs, n, closing))

\* Step 1 on a sheet holding one shift of three duty stretches with a rest
\* after the first and after the second.
CollectTwoBreak ==
  /\ pc = "start"
  /\ \E d1 \in TwoBreakDuty, r1 \in TwoBreakRests, d2 \in TwoBreakDuty,
        r2 \in TwoBreakRests, d3 \in TwoBreakLast, closing \in Closings :
       StartLoop(MealSheet(<<<<"D", d1>>, r1, <<"D", d2>>, r2, <<"ON", d3>>>>,
                           5, closing))

\* Step 1 on two workbooks that each hold a sheet of the driver.
CollectBooks ==
  /\ pc = "start"
  /\ \E n1 \in 1..MaxBookRows, n2 \in 1..MaxBookRows :
       \E a \in [1..n1 -> BookCells], b \in [1..n2 -> BookCells] :
         StartLoopBooks(<<a, b>>)

\* Step 1 on a sheet holding a shift and the rest block that closes it.
CollectRestBlock ==
  /\ pc = "start"
  /\ \E r1 \in {"OFF", "SB"}, r2 \in {"OFF", "SB"}, inner \in RestInners,
        total \in RestTotals, w2 \in {"ON", "D"} :
       /\ inner < total
       /\ StartLoop(RestBlockSheet(r1, r2, inner, total, w2))

\* Step 1 on a sheet of several days with certification rows.
CollectCert ==
  /\ pc = "start"
  /\ \E p1 \in DayPlans, p2 \in DayPlans, p3 \in DayPlans,
        c1 \in CertPlans(1), c2 \in CertPlans(2) :
       StartLoopBooks(<<CertSheet(p1, p2, p3, c1, c2)>>)

\* Step 1 on a sheet holding a rest with one duty excursion.
CollectBlip ==
  /\ pc = "start"
  /\ \E r1 \in {"OFF", "SB"}, w \in {"ON", "D"}, exc \in BlipExcursions,
        r2 \in {"OFF", "SB"}, total \in BlipTotals, w2 \in {"ON", "D"},
        pre \in BOOLEAN, tail \in BlipTails :
       StartLoop(BlipSheet(r1, w, exc, r2, total, w2, pre, tail))

Init ==
  /\ books = <<>>
  /\ timeline = <<>>
  /\ pc = "start"
  /\ i = 1
  /\ inOff = FALSE
  /\ offStart = NoTs
  /\ offHome = FALSE
  /\ offKind = ""
  /\ shiftActive = FALSE
  /\ shiftStart = NoTs
  /\ payableMin = 0
  /\ sleeperMin = 0
  /\ layoverMin = 0
  /\ maxOnStreakMs = 0
  /\ curOnStreakMs = 0
  /\ results = <<>>
  /\ opened = <<>>
  /\ dqpc = "idle"
  /\ starts = <<>>
  /\ now = NoNow
  /\ out = <<>>
  /\ prior = NoPrior

Next ==
  \/ CollectGeneral
  \/ CollectMeal
  \/ CollectTwoBreak
  \/ CollectBooks
  \/ CollectRestBlock
  \/ CollectCert
  \/ CollectBlip
  \/ LoopOff
  \/ LoopDuty
  \/ TailClose
  \/ Detect
  \/ Run

Spec == Init /\ [][Next]_vars

\* The second copy of the page runs the same ingestion and its own loop.
NextSecond ==
  \/ CollectGeneral
  \/ CollectRestBlock
  \/ LoopOffSecond
  \/ LoopDutySecond
  \/ TailCloseSecond

SpecSecond == Init /\ [][NextSecond]_vars

(* ------------------------------------------------------------------ *)
(* A second check on another selection of files                        *)
(* ------------------------------------------------------------------ *)
\* the rows of a list, each exact copy after the first left out
RECURSIVE Once(_)
Once(rows) ==
  IF Len(rows) = 0 THEN <<>>
  ELSE LET front == Once(SubSeq(rows, 1, Len(rows) - 1))
           r == rows[Len(rows)]
       IN IF \E k \in 1..Len(front) : front[k] = r THEN front
          ELSE Append(front, r)

\* one workbook that holds every row of the workbooks once
SingleCopy(bks) == <<Once(AllRows(bks, Len(bks)))>>

\* the workbooks without the records whose status is no duty status
WithoutFillers(bks) ==
  [b \in 1..Len(bks) |->
     SelectSeq(bks[b], LAMBDA r : r.status = "" \/ isDuty(r.status))]

\* the status written as the first member of its set
CanonicalStatus(st) ==
  IF st \in D_SET THEN "D"
  ELSE IF st \in ON_SET THEN "ON"
  ELSE IF st \in SB_SET THEN "SB"
  ELSE st

CanonicalBooks(bks) ==
  [b \in 1..Len(bks) |->
     [k \in 1..Len(bks[b]) |->
        [bks[b][k] EXCEPT !.status = CanonicalStatus(@)]]]

\* the selections of files the second check is run on
Reselections(bks) ==
  {SingleCopy(bks), WithoutFillers(bks), CanonicalBooks(bks)} \ {bks}

\* runPayableHoursCheck (lines 1148-1173) once more, on another selection:
\* parseLogsAcrossWorkbooks starts from fresh per-driver state, and what the
\* certification-gap evaluator computed for the earlier selection is void.
Reparse ==
  /\ pc = "done"
  /\ ~prior.ran
  /\ \E bks \in Reselections(books) :
       /\ prior' = [ran |-> TRUE, books |-> books, rows |-> results]
       /\ books' = bks
       /\ timeline' = TimelineOfBooks(bks)
  /\ pc' = "loop"
  /\ i' = 1
  /\ inOff' = FALSE
  /\ offStart' = NoTs
  /\ offHome' = FALSE
  /\ offKind' = ""
  /\ shiftActive' = FALSE
  /\ shiftStart' = NoTs
  /\ payableMin' = 0
  /\ sleeperMin' = 0
  /\ layoverMin' = 0
  /\ maxOnStreakMs' = 0
  /\ curOnStreakMs' = 0
  /\ results' = <<>>
  /\ opened' = <<>>
  /\ dqpc' = "idle"
  /\ starts' = <<>>
  /\ now' = NoNow
  /\ out' = <<>>

\* Step 1 on two workbooks that hold overlapping parts of one sheet.
CollectOverlap ==
  /\ pc = "start"
  /\ \E n \in 3..MaxOverlapLen :
       \E g \in [1..(n - 1) -> OverlapGaps], k \in [2..n -> OverlapKinds],
          a \in 1..n, b \in 1..n :
         /\ a <= b
         /\ StartLoopBooks(
              OverlapBooks(<<Evt(0, <<"OFF", FALSE>>)>> \o
                             [j \in 1..(n - 1) |->
                                Evt(TsOf(g, j + 1), k[j + 1])],
                           a, b))

\* Step 1 on a sheet with a record that carries no duty status.
CollectFiller ==
  /\ pc = "start"
  /\ \E rest \in FillerRests, k \in 1..4, off \in FillerOffsets :
       /\ FillerBase(rest)[k].ts + off < FillerBase(rest)[k + 1].ts
       /\ StartLoop(FillerSheet(rest, k, off))

\* Step 1 on a sheet whose statuses are spelled out.
CollectAlias ==
  /\ pc = "start"
  /\ \E w1 \in AliasWork, r \in AliasRest, rest \in AliasRests,
        w2 \in AliasWork :
       StartLoop(AliasSheet(w1, r, rest, w2))

NextRerun ==
  \/ CollectOverlap
  \/ CollectFiller
  \/ CollectAlias
  \/ LoopOff
  \/ LoopDuty
  \/ TailClose
  \/ Reparse
  \/ Detect
  \/ Run

SpecRerun == Init /\ [][NextRerun]_vars

(* ================================================================== *)
(* Properties                                                          *)
(* ================================================================== *)
H930 == 9 * 3600000 + 30 * 60000
Rest(s) == s \in {"OFF", "SB"}
Duty(s) == s \in {"ON", "D"}
Started == pc \in {"loop", "done"}

\* Index of the first entry of the run of OFF/SB entries that holds entry j.
RECURSIVE RestBlockFirst(_)
RestBlockFirst(j) ==
  IF j > 1 /\ Rest(timeline[j - 1].eff) THEN RestBlockFirst(j - 1) ELSE j

\* C1: in the loop, at an OFF/SB entry that has a next entry and while a
\* shift is active, the shift is closed exactly when the time from the rest
\* block's first entry to the next entry is at least 9h30m, and the closed
\* shift ends at the block's first entry; otherwise the shift stays active
\* and no row is pushed.
C1_RestClosesShift ==
  [][ (pc = "loop" /\ i < Len(timeline) /\ Rest(timeline[i].eff) /\ shiftActive)
      => LET first == timeline[RestBlockFirst(i)].ts
             dur == timeline[i + 1].ts - first
         IN IF dur >= H930
            THEN /\ Len(results') = Len(results) + 1
                 /\ SubSeq(results', 1, Len(results)) = results
                 /\ results'[Len(results')].end = first
                 /\ results'[Len(results')].start = shiftStart
                 /\ ~shiftActive'
            ELSE /\ results' = results
                 /\ shiftActive' ]_vars

\* A shift was closed by a rest block of exactly 9h30m, and another
\* timeline kept its shift through a rest of 9h29m30s.
C1_Witness ==
  /\ pc = "done"
  /\ \E k \in 1..Len(results) :
       /\ results[k].note = NOTE_NEAR
       /\ results[k].shortBy = 30 * 60000
       /\ \E j \in 1..Len(timeline) :
            /\ Rest(timeline[j].eff)
            /\ timeline[j].ts = results[k].end
            /\ \E m \in (j + 1)..Len(timeline) :
                 timeline[m].ts = results[k].end + H930

\* The entries before index n at which a shift must open: the first
\* non-rest entry after a rest block whose first entry lies at least 9h30m
\* earlier.
RECURSIVE QualifyingEntries(_)
QualifyingEntries(n) ==
  IF n <= 1 THEN <<>>
  ELSE LET e == timeline[n]
           q == /\ ~Rest(e.eff)
                /\ Rest(timeline[n - 1].eff)
                /\ e.ts - timeline[RestBlockFirst(n - 1)].ts >= H930
       IN IF q THEN Append(QualifyingEntries(n - 1), e.ts)
          ELSE QualifyingEntries(n - 1)

\* C2: the shifts opened so far are exactly those at the qualifying
\* entries, each starting at its entry's timestamp; every row starts at
\* such an entry, so a timeline without one yields no row.
C2_ShiftOpensAfterRest ==
  Started =>
    /\ opened = QualifyingEntries(Min(i - 1, Len(timeline)))
    /\ (shiftActive => opened # <<>> /\ shiftStart = opened[Len(opened)])
    /\ \A k \in 1..Len(results) :
         \E m \in 1..Len(opened) : results[k].start = opened[m]
    /\ (pc = "done" /\ QualifyingEntries(Len(timeline)) = <<>> => results = <<>>)

\* A shift opened after a rest of exactly 9h30m and was emitted.
C2_Witness ==
  /\ pc = "done"
  /\ results # <<>>
  /\ \E j \in 2..Len(timeline) :
       /\ Duty(timeline[j].eff)
       /\ Rest(timeline[j - 1].eff)
       /\ timeline[j].ts - timeline[RestBlockFirst(j - 1)].ts = H930
       /\ results[1].start = timeline[j].ts

\* The events the certification-gap evaluator holds for the driver.
DqEvents == BucketEvents(books)

\* A duty entry k that the certification-gap evaluator's claim calls a
\* brief excursion: at most 10 minutes long and bracketed by OFF/SB entries.
Excursion(k) ==
  /\ 1 < k /\ k < Len(DqEvents)
  /\ Duty(DqEvents[k].status)
  /\ Rest(DqEvents[k - 1].status)
  /\ Rest(DqEvents[k + 1].status)
  /\ DqEvents[k + 1].ts - DqEvents[k].ts <= 10 * 60000

\* Index of the first entry of the rest block that holds entry j, brief
\* excursions being part of the block.
RECURSIVE TolerantBlockFirst(_)
TolerantBlockFirst(j) ==
  IF j > 1 /\ (Rest(DqEvents[j - 1].status) \/ Excursion(j - 1))
  THEN TolerantBlockFirst(j - 1) ELSE j

RECURSIVE TolerantStarts(_)
TolerantStarts(n) ==
  IF n <= 1 THEN <<>>
  ELSE LET e == DqEvents[n]
           q == /\ Duty(e.status)
                /\ ~Excursion(n)
                /\ Rest(DqEvents[n - 1].status)
                /\ e.ts - DqEvents[TolerantBlockFirst(n - 1)].ts >= H930
       IN IF q THEN Append(TolerantStarts(n - 1), e.ts)
          ELSE TolerantStarts(n - 1)

\* The rest sheet OFF 0:00, DRIVING 5:00, OFF 5:00 + exc, ON 9:45.
ExcursionSheet(exc) ==
  /\ Len(DqEvents) = 4
  /\ DqEvents[1].status = "OFF" /\ DqEvents[1].ts = 0
  /\ DqEvents[2].status = "D" /\ DqEvents[2].ts = 5 * 3600000
  /\ DqEvents[3].status = "OFF" /\ DqEvents[3].ts = 5 * 3600000 + exc
  /\ DqEvents[4].status = "ON" /\ DqEvents[4].ts = H930 + 15 * 60000

\* C3: detectShiftStarts yields exactly the duty entries that end a rest
\* block of at least 9h30m, where a duty excursion of at most 10 minutes
\* bracketed by OFF/SB entries is part of the block and a longer one ends
\* it: a 9h45m block with a 5-minute DRIVING excursion yields the start at
\* its end, and with a 20-minute excursion it yields none.
C3_BlipTolerance ==
  dqpc = "done" =>
    /\ starts = TolerantStarts(Len(DqEvents))
    /\ (ExcursionSheet(5 * 60000) => starts = <<H930 + 15 * 60000>>)
    /\ (ExcursionSheet(20 * 60000) => starts = <<>>)

\* The 9h45m block with the 5-minute DRIVING excursion has been scanned.
C3_Witness ==
  /\ dqpc = "done"
  /\ ExcursionSheet(5 * 60000)
  /\ Len(starts) = 1

\* The 9h45m block with the 20-minute excursion has been scanned.
C3_WitnessSplit ==
  /\ dqpc = "done"
  /\ ExcursionSheet(20 * 60000)
  /\ starts = <<>>

\* C4: for every timeline, detectShiftStarts yields the same shift starts
\* as the hours engine opened.
C4_SameStartsAsHoursEngine ==
  dqpc = "done" => starts = opened

\* C5: the emitted shifts are in chronological order and do not overlap:
\* each starts no later than it ends and ends no later than the next starts.
C5_ShiftsOrdered ==
  /\ \A k \in 1..Len(results) : results[k].start <= results[k].end
  /\ \A k \in 1..(Len(results) - 1) : results[k].end <= results[k + 1].start

\* Two shifts have been emitted for one driver.
C5_Witness ==
  /\ pc = "done"
  /\ Len(results) >= 2
  /\ results[1].start < results[1].end
  /\ results[1].end < results[2].start

\* Segment j runs from entry j to entry j + 1.
SegLen(j) == timeline[j + 1].ts - timeline[j].ts
InShift(j, r) == timeline[j].ts >= r.start /\ timeline[j + 1].ts <= r.end
NearestMinute(ms) == IF (ms % 60000) * 2 >= 60000 THEN ms \div 60000 + 1
                     ELSE ms \div 60000

\* Sum of F(j) over the segments j <= n that satisfy P(j).
SumSegs(n, P(_), F(_)) ==
  LET RECURSIVE S(_)
      S(m) == IF m <= 0 THEN 0 ELSE S(m - 1) + (IF P(m) THEN F(m) ELSE 0)
  IN S(n)

DutyMsIn(r) ==
  SumSegs(Len(timeline) - 1,
          LAMBDA j : InShift(j, r) /\ Duty(timeline[j].eff), SegLen)
DutyMinutesIn(r) ==
  SumSegs(Len(timeline) - 1,
          LAMBDA j : InShift(j, r) /\ Duty(timeline[j].eff),
          LAMBDA j : NearestMinute(SegLen(j)))
SleeperMinutesIn(r) ==
  SumSegs(Len(timeline) - 1,
          LAMBDA j : InShift(j, r) /\ timeline[j].eff = "SB",
          LAMBDA j : NearestMinute(SegLen(j)))
LayoverMinutesIn(r) ==
  SumSegs(Len(timeline) - 1,
          LAMBDA j : /\ InShift(j, r)
                     /\ timeline[j].eff = "OFF"
                     /\ ~timeline[j].home
                     /\ SegLen(j) >= 2 * 3600000,
          LAMBDA j : NearestMinute(SegLen(j)))

\* C6 as stated: every emitted shift's payable minutes equal the total
\* duration of the ON/DRIVING segments inside [start, end).
C6_PayableIsOnDutyDuration ==
  \A k \in 1..Len(results) :
    results[k].payableMin * 60000 = DutyMsIn(results[k])

\* C6, amended: every emitted shift's payable minutes equal the sum, over
\* the ON/DRIVING segments inside [start, end), of each segment's duration
\* rounded to the nearest whole minute; OFF and SLEEPER segments add
\* nothing.
C6_PayableIsRoundedSegments ==
  \A k \in 1..Len(results) :
    results[k].payableMin = DutyMinutesIn(results[k])

\* A shift holding ON/DRIVING time next to OFF or SLEEPER time, with a
\* segment that is not a whole number of minutes, has been emitted.
C6_Witness ==
  \E k \in 1..Len(results) :
    /\ results[k].payableMin > 0
    /\ results[k].payableMin * 60000 # DutyMsIn(results[k])
    /\ \E j \in 1..(Len(timeline) - 1) :
         InShift(j, results[k]) /\ Rest(timeline[j].eff)

\* The shift ON 2h, DRIVING 4h, OFF 20m, ON 1h40m that begins at entry j.
MealScenarioAt(j, r) ==
  /\ j + 4 <= Len(timeline)
  /\ r.start = timeline[j].ts
  /\ r.end = timeline[j + 4].ts
  /\ timeline[j].eff = "ON" /\ SegLen(j) = 120 * 60000
  /\ timeline[j + 1].eff = "D" /\ SegLen(j + 1) = 240 * 60000
  /\ timeline[j + 2].eff = "OFF" /\ SegLen(j + 2) = 20 * 60000
  /\ timeline[j + 3].eff = "ON" /\ SegLen(j + 3) = 100 * 60000
IsMealScenario(r) == \E j \in 1..Len(timeline) : MealScenarioAt(j, r)

\* C7 as stated: the shift ON 08:00-10:00, DRIVING 10:00-14:00,
\* OFF 14:00-14:20, ON 14:20-16:00 reports 480 payable minutes.
C7_Payable480 ==
  \A k \in 1..Len(results) :
    IsMealScenario(results[k]) => results[k].payableMin = 480

\* C7, amended: that shift reports 460 payable minutes (120 + 240 + 100),
\* shown as 7.67 payable hours, the 20-minute OFF interval adding nothing to
\* them; 480 minutes is the shift's duration.
C7_Payable460 ==
  \A k \in 1..Len(results) :
    IsMealScenario(results[k]) =>
      /\ results[k].payableMin = 460
      /\ results[k].payableHours = 767
      /\ results[k].durationMin = 480

\* The shift of C7 has been emitted.
C7_Witness ==
  \E k \in 1..Len(results) : IsMealScenario(results[k])

\* C8: every emitted shift's payable, sleeper and layover minutes are
\* non-negative and count only the segments inside [start, end): the
\* SLEEPER segments for sleeper minutes, the away-from-home OFF segments of
\* at least 2 hours for layover minutes.
C8_TotalsInsideShift ==
  \A k \in 1..Len(results) :
    /\ results[k].payableMin >= 0
    /\ results[k].sleeperMin >= 0
    /\ results[k].layoverTotalMin >= 0
    /\ results[k].payableMin = DutyMinutesIn(results[k])
    /\ results[k].sleeperMin = SleeperMinutesIn(results[k])
    /\ results[k].layoverTotalMin = LayoverMinutesIn(results[k])

\* Time of the segments with status in S that lies in [r.start, t).
TimeBefore(r, t, S) ==
  SumSegs(Len(timeline) - 1,
          LAMBDA j : timeline[j].eff \in S,
          LAMBDA j : Max(0, Min(timeline[j + 1].ts, t)
                            - Max(timeline[j].ts, r.start)))
OnDutyBefore(r, t) == TimeBefore(r, t, {"ON", "D"})
RestBefore(r, t) == TimeBefore(r, t, {"OFF", "SB"})
MealRequired(r) == r.payableMin >= 6 * 60

\* d is the earliest instant of [r.start, r.end] at which the ON/DRIVING
\* time inside [r.start, d) equals h hours.
IsOnDutyMark(r, d, h) ==
  /\ r.start <= d /\ d <= r.end
  /\ OnDutyBefore(r, d) = h * 3600000
  /\ OnDutyBefore(r, d - 1) < h * 3600000
  /\ d >= r.start + h * 3600000
  /\ (RestBefore(r, d) > 0 => d > r.start + h * 3600000)
  /\ d = r.start + h * 3600000 + RestBefore(r, d)

\* C9: when a meal break is required, deadline 1 is the earliest instant at
\* which the ON/DRIVING time accumulated since the shift's start equals 5
\* hours, and deadline 2 (payable above 12 hours) the same for 10 hours;
\* OFF and SLEEPER time delays the deadline by its own length, so the
\* deadline is at least start + 5h and later when rest precedes it.
C9_DeadlineIsOnDutyMark ==
  \A k \in 1..Len(results) :
    LET r == results[k]
    IN /\ (MealRequired(r) => IsOnDutyMark(r, r.deadline5, 5))
       /\ (r.payableMin > 12 * 60 => IsOnDutyMark(r, r.deadline10, 10))

\* A shift needing two breaks whose rest time precedes both deadlines.
C9_Witness ==
  \E k \in 1..Len(results) :
    LET r == results[k]
    IN /\ r.payableMin > 12 * 60
       /\ RestBefore(r, r.deadline5) > 0
       /\ r.deadline5 > r.start + 5 * 3600000
       /\ r.deadline10 > r.start + 10 * 3600000
       /\ r.deadline10 < r.end

\* Segment j is an OFF segment of shift r, at least 30 minutes of it inside
\* the shift.
OffBreakIn(j, r) ==
  /\ timeline[j].eff = "OFF"
  /\ timeline[j].ts < r.end
  /\ timeline[j + 1].ts > r.start
  /\ Min(timeline[j + 1].ts, r.end) - Max(timeline[j].ts, r.start) >= 30 * 60000
OffBreakStart(j, r) == Max(timeline[j].ts, r.start)

\* Shift r has 7 on-duty hours and a single OFF segment, 35 minutes long,
\* that begins after h on-duty hours.
SingleOffAtHour(r, h) ==
  /\ r.payableMin = 7 * 60
  /\ \E j \in 1..(Len(timeline) - 1) :
       /\ OffBreakIn(j, r)
       /\ SegLen(j) = 35 * 60000
       /\ InShift(j, r)
       /\ OnDutyBefore(r, timeline[j].ts) = h * 3600000
       /\ \A m \in 1..(Len(timeline) - 1) :
            (m # j /\ InShift(m, r)) => Duty(timeline[m].eff)

\* C10: a shift that needs one break (payable from 6 to 12 hours) is
\* compliant exactly when some OFF segment of the shift lasts at least 30
\* minutes and starts strictly before deadline 1, that is before 5 on-duty
\* hours have accumulated; otherwise it is a violation. With 7 on-duty
\* hours, a single 35-minute OFF after 4 on-duty hours is compliant and the
\* same OFF after 6 on-duty hours is a violation.
C10_OneBreakVerdict ==
  \A k \in 1..Len(results) :
    LET r == results[k]
        segs == 1..(Len(timeline) - 1)
    IN (MealRequired(r) /\ r.payableMin <= 12 * 60) =>
         /\ r.mealStatus \in {"Compliant", "Violation"}
         /\ r.mealStatus = "Compliant" <=>
              \E j \in segs : OffBreakIn(j, r) /\ OffBreakStart(j, r) < r.deadline5
         /\ r.mealStatus = "Compliant" <=>
              \E j \in segs :
                /\ OffBreakIn(j, r)
                /\ OnDutyBefore(r, OffBreakStart(j, r)) < 5 * 3600000
         /\ (SingleOffAtHour(r, 4) => r.mealStatus = "Compliant")
         /\ (SingleOffAtHour(r, 6) => r.mealStatus = "Violation")

\* The 7-hour shift whose only OFF segment, 35 minutes, begins after 6
\* on-duty hours has been judged.
C10_Witness ==
  \E k \in 1..Len(results) :
    /\ SingleOffAtHour(results[k], 6)
    /\ results[k].mealNotes = "Late 1st"

\* The 7-hour shift whose only OFF segment begins after 4 on-duty hours has
\* been judged.
C10_WitnessEarly ==
  \E k \in 1..Len(results) :
    /\ SingleOffAtHour(results[k], 4)
    /\ results[k].mealNotes = "1st"

\* Segment j is an OFF segment of shift r that lasts at least 30 minutes
\* and begins before h on-duty hours have accumulated in the shift.
BreakBeforeHour(j, r, h) ==
  /\ OffBreakIn(j, r)
  /\ OnDutyBefore(r, OffBreakStart(j, r)) < h * 3600000
ShiftSegs == 1..(Len(timeline) - 1)
OneBreakNotes ==
  {"1st", "Late 1st", "No 1st 30-min OFF before 5th on-duty hour"}
TwoBreakNotes ==
  {"1st 2nd", "Late 1st", "No 1st 30-min OFF before 5th on-duty hour",
   "Late 2nd", "No 2nd 30-min OFF before 10th on-duty hour"}

\* C11: a shift with less than 6 payable hours needs no break and is
\* compliant with the note "No break required"; from 6 to 12 payable hours
\* it needs one break (compliant exactly when an OFF break begins before
\* the 5th on-duty hour); above 12 payable hours it needs two (one break
\* alone is a violation).
C11_BreaksRequired ==
  \A k \in 1..Len(results) :
    LET r == results[k]
        early == {j \in ShiftSegs : BreakBeforeHour(j, r, 5)}
        any == {j \in ShiftSegs : OffBreakIn(j, r)}
    IN /\ r.payableMin < 6 * 60 =>
            /\ r.mealStatus = "Compliant"
            /\ r.mealNotes = "No break required (<6h on-duty)"
       /\ (r.payableMin >= 6 * 60 /\ r.payableMin <= 12 * 60) =>
            /\ r.mealNotes \in OneBreakNotes
            /\ r.mealStatus = "Compliant" <=> early # {}
            /\ r.mealStatus = "Compliant" <=> r.mealNotes = "1st"
       /\ r.payableMin > 12 * 60 =>
            /\ r.mealNotes \in TwoBreakNotes
            /\ r.mealStatus = "Compliant" <=> r.mealNotes = "1st 2nd"
            /\ (Cardinality(any) <= 1 => r.mealStatus = "Violation")
            /\ (early = {} => r.mealStatus = "Violation")

\* A shift of exactly 12 payable hours is compliant with one break.
C11_Witness ==
  \E k \in 1..Len(results) :
    /\ results[k].payableMin = 12 * 60
    /\ results[k].mealNotes = "1st"
    /\ results[k].mealStatus = "Compliant"

\* A shift of exactly 6 payable hours without a break is a violation, and
\* so is a shift above 12 payable hours with a single early break.
C11_WitnessSix ==
  \E k \in 1..Len(results) :
    /\ results[k].payableMin = 6 * 60
    /\ results[k].mealStatus = "Violation"

\* The segment of the set S that begins first.
FirstOf(S) == CHOOSE j \in S : \A m \in S : timeline[j].ts <= timeline[m].ts
\* What a note shows of the break in segment j of shift r: the hour and
\* minute of its start and its length to the nearest minute.
ShownBreak(j, r) ==
  LET from == OffBreakStart(j, r)
      len == Min(timeline[j + 1].ts, r.end) - from
  IN [hm |-> <<(from \div 3600000) % 24, (from \div 60000) % 60>>,
      min |-> NearestMinute(len)]

\* C12: a shift that needs two breaks (payable above 12 hours) is compliant
\* exactly when break 1 exists (the first OFF segment of at least 30
\* minutes that begins before the 5th on-duty hour) and another OFF segment
\* of at least 30 minutes begins after break 1 begins and strictly before
\* deadline 2, the 10th on-duty hour; the compliant note lists the start
\* time and the duration of break 1 and of the first such second break.
C12_TwoBreakVerdict ==
  \A k \in 1..Len(results) :
    LET r == results[k]
        early == {j \in ShiftSegs : BreakBeforeHour(j, r, 5)}
        b1 == FirstOf(early)
        later == {j \in ShiftSegs :
                    /\ j # b1
                    /\ OffBreakIn(j, r)
                    /\ OffBreakStart(j, r) > OffBreakStart(b1, r)
                    /\ OffBreakStart(j, r) < r.deadline10}
        laterByHour == {j \in ShiftSegs :
                    /\ j # b1
                    /\ OffBreakStart(j, r) > OffBreakStart(b1, r)
                    /\ BreakBeforeHour(j, r, 10)}
    IN r.payableMin > 12 * 60 =>
         /\ r.mealStatus \in {"Compliant", "Violation"}
         /\ r.mealStatus = "Compliant" <=> (early # {} /\ later # {})
         /\ (early # {} => later = laterByHour)
         /\ (r.mealStatus = "Compliant" =>
               r.mealParts = <<ShownBreak(b1, r), ShownBreak(FirstOf(later), r)>>)
         /\ (r.mealStatus = "Violation" => r.mealParts = <<>>)

\* A shift above 12 payable hours found compliant with two breaks, the
\* second of them not a whole number of minutes long.
C12_Witness ==
  \E k \in 1..Len(results) :
    /\ results[k].payableMin > 12 * 60
    /\ results[k].mealStatus = "Compliant"
    /\ Len(results[k].mealParts) = 2
    /\ results[k].mealParts[2].min = 31

\* A shift above 12 payable hours whose second OFF segment begins exactly
\* at the 10th on-duty hour.
C12_WitnessLate ==
  \E k \in 1..Len(results) :
    /\ results[k].payableMin > 12 * 60
    /\ results[k].mealNotes = "Late 2nd"
    /\ \E j \in ShiftSegs :
         OffBreakIn(j, results[k]) /\ OffBreakStart(j, results[k]) = results[k].deadline10

\* Index of the entry that ends the rest block beginning at entry j: the
\* first later entry that is not OFF/SB, or 0 when the data ends first.
RECURSIVE BlockEnder(_)
BlockEnder(j) ==
  IF j > Len(timeline) THEN 0
  ELSE IF ~Rest(timeline[j].eff) THEN j
  ELSE BlockEnder(j + 1)

\* C13: a shift closed by a rest block carries the "Near reset: short by D"
\* note exactly when the whole block, from its first OFF/SLEEPER entry to
\* the duty entry that ends it, lasted at least 9h30m and less than 10h,
\* and D is 10h minus the whole block's duration.
C13_NearResetWholeBlock ==
  \A k \in 1..Len(results) :
    \A j \in 1..Len(timeline) :
      ( /\ timeline[j].ts = results[k].end
        /\ Rest(timeline[j].eff)
        /\ RestBlockFirst(j) = j
        /\ BlockEnder(j) # 0 ) =>
        LET whole == timeline[BlockEnder(j)].ts - timeline[j].ts
            near == whole >= H930 /\ whole < 10 * 3600000
        IN /\ results[k].note = NOTE_NEAR <=> near
           /\ (results[k].note = NOTE_NEAR =>
                 results[k].shortBy = 10 * 3600000 - whole)

\* The same for the rest blocks that hold a single entry.
C13_NearResetSingleEntry ==
  \A k \in 1..Len(results) :
    \A j \in 1..Len(timeline) :
      ( /\ timeline[j].ts = results[k].end
        /\ Rest(timeline[j].eff)
        /\ RestBlockFirst(j) = j
        /\ BlockEnder(j) = j + 1 ) =>
        LET whole == timeline[j + 1].ts - timeline[j].ts
            near == whole >= H930 /\ whole < 10 * 3600000
        IN /\ results[k].note = NOTE_NEAR <=> near
           /\ (results[k].note = NOTE_NEAR =>
                 results[k].shortBy = 10 * 3600000 - whole)

\* The workbooks in the other order.
RECURSIVE Reversed(_)
Reversed(q) ==
  IF q = <<>> THEN <<>> ELSE Append(Reversed(SubSeq(q, 2, Len(q))), q[1])
TwoBooks == Started /\ Len(books) = 2
\* Timestamps and effective statuses of a timeline, in order.
Shape(tl) == [k \in 1..Len(tl) |-> <<tl[k].ts, tl[k].eff>>]

\* C19: the same records split across two workbooks give the same timeline
\* (timestamps and effective statuses in the same order) whichever
\* workbook is read first.
C19_BatchOrderIndependent ==
  TwoBooks =>
    /\ timeline = TimelineOfBooks(books)
    /\ Shape(TimelineOfBooks(Reversed(books))) = Shape(timeline)

\* C20: the driver's timeline is sorted by timestamp and no two of its
\* entries have the same timestamp.
C20_TimelineStrictlySorted ==
  Started =>
    \A k \in 1..(Len(timeline) - 1) : timeline[k].ts < timeline[k + 1].ts

\* What the engine does keep: the timeline is sorted by timestamp, and
\* within one workbook's sheet only the first row of a timestamp survives.
C20_SortedAndSheetDeduped ==
  Started =>
    /\ \A k \in 1..(Len(timeline) - 1) : timeline[k].ts <= timeline[k + 1].ts
    /\ \A t \in {timeline[k].ts : k \in 1..Len(timeline)} :
         Cardinality({k \in 1..Len(timeline) : timeline[k].ts = t})
           = Cardinality({b \in 1..Len(books) :
                            \E m \in 1..Len(books[b]) : books[b][m].ts = t})


(* ------------------------------------------------------------------ *)
(* Certification-gap evaluator                                         *)
(* ------------------------------------------------------------------ *)

Ran == dqpc = "ran"

\* the rows of the output that name the shift start s
RowsOf(s) == {j \in 1..Len(out) : out[j].details.start = s}

InLookback(s) == ~BeforeLookback(iso(s), now)

\* C14: every detected shift start inside the look-back window gets exactly
\* one verdict row, and no two rows name the same shift start, also when
\* two shifts start on one calendar day or a shift spans several days.
C14_OneRowPerShiftStart ==
  Ran =>
    \A k \in 1..Len(starts) :
      InLookback(starts[k]) => Cardinality(RowsOf(starts[k])) = 1

\* The half of C14 that the emit guard does give: no shift start is named
\* by two rows.
C14_AtMostOneRowPerShiftStart ==
  Ran => \A k \in 1..Len(starts) : Cardinality(RowsOf(starts[k])) <= 1


AllBookRows == AllRows(books, Len(books))

\* day y has an ON or DRIVING event
WorkedOn(y) ==
  \E k \in 1..Len(DqEvents) :
    isWork(DqEvents[k].status) /\ DqEvents[k].ts \div DAY_MS = y

\* day y has a certification record made at or before time T
CertifiedBy(y, T) ==
  \E k \in 1..Len(AllBookRows) :
    /\ IsCert(AllBookRows[k])
    /\ CertTarget(AllBookRows[k]) = y
    /\ AllBookRows[k].ts <= T

\* the row's cutoff lies before the next detected shift start after its anchor
SameShiftAt(r) ==
  \A k \in 1..Len(starts) : starts[k] > r.details.start => r.cutoff < starts[k]

\* day y is the row's shift-start day and the exemption applies
ExemptFor(r, y) ==
  r.details.start # NoTs /\ y = r.details.start \div DAY_MS /\ SameShiftAt(r)

\* the days that count against the row
Uncertified(r) ==
  {y \in 0..(r.cutoff \div DAY_MS - 1) :
     WorkedOn(y) /\ ~CertifiedBy(y, r.cutoff) /\ ~ExemptFor(r, y)}

\* C15: a row is 'disqualified' exactly when some calendar day strictly
\* before the cutoff's day has an ON or DRIVING event, has no certification
\* for that day made at or before the cutoff (one made exactly at the cutoff
\* counts) and is not exempt; otherwise it is 'qualified'.  A disqualified
\* row's note names the earliest such day.
C15_DisqualifiedIffUncertifiedDay ==
  Ran =>
    \A j \in 1..Len(out) :
      /\ out[j].verdict \in {"Disqualified", "Qualified"}
      /\ out[j].verdict = "Disqualified" <=> Uncertified(out[j]) # {}
      /\ out[j].verdict = "Disqualified" =>
           /\ out[j].details.earliest \in Uncertified(out[j])
           /\ \A y \in Uncertified(out[j]) : out[j].details.earliest <= y
           /\ out[j].details.count = Cardinality(Uncertified(out[j]))

\* a qualified row for which a prior worked day was certified exactly at
\* the cutoff and not before
C15_Witness ==
  /\ Ran
  /\ \E j \in 1..Len(out) :
       /\ out[j].verdict = "Qualified"
       /\ \E y \in 0..(out[j].cutoff \div DAY_MS - 1) :
            /\ WorkedOn(y) /\ ~ExemptFor(out[j], y)
            /\ CertifiedBy(y, out[j].cutoff)
            /\ ~CertifiedBy(y, out[j].cutoff - 1)

\* a disqualified row with two uncertified days, one certified too late
C15_WitnessDisqualified ==
  /\ Ran
  /\ \E j \in 1..Len(out) :
       /\ out[j].verdict = "Disqualified"
       /\ Cardinality(Uncertified(out[j])) = 2
       /\ \E y \in Uncertified(out[j]) : CertifiedBy(y, out[j].cutoff + 1000)


\* the events of the calendar day D, in time order
DayEvents(D) == SelectSeq(DqEvents, LAMBDA e : e.ts \div DAY_MS = D)

HasDriving(D) == \E k \in 1..Len(DayEvents(D)) : DayEvents(D)[k].status = "D"

\* the timestamp of the day's first event with the status
FirstTs(D, st) ==
  LET idx == {k \in 1..Len(DayEvents(D)) : DayEvents(D)[k].status = st}
  IN DayEvents(D)[CHOOSE k \in idx : \A m \in idx : k <= m].ts

\* the detected shift starts that fall on the calendar day D
StartsOn(D) == {starts[k] : k \in {j \in 1..Len(starts) : starts[j] \div DAY_MS = D}}

FirstStartOn(D) == CHOOSE x \in StartsOn(D) : \A y \in StartsOn(D) : x <= y

\* C16 as stated: the cutoff is the timestamp of the day's first DRIVING
\* event when the day has one, and the anchor shift start plus 60 minutes
\* on every day that has ON events but no DRIVING.
C16_CutoffAnchorPlus60 ==
  Ran =>
    \A j \in 1..Len(out) :
      IF HasDriving(out[j].day)
      THEN out[j].cutoff = FirstTs(out[j].day, "D")
      ELSE /\ out[j].details.start # NoTs
           /\ out[j].cutoff = out[j].details.start + 60 * 60000

\* C16 amended: the cutoff is the timestamp of the day's first DRIVING
\* event when the day has one; on a day with ON events but no DRIVING it is
\* the day's first detected shift start plus 60 minutes when a shift starts
\* on that day, and the timestamp of the day's first ON event when none does.
C16_CutoffByKindOfDay ==
  Ran =>
    \A j \in 1..Len(out) :
      IF HasDriving(out[j].day)
      THEN out[j].cutoff = FirstTs(out[j].day, "D")
      ELSE IF StartsOn(out[j].day) # {}
      THEN /\ out[j].details.start = FirstStartOn(out[j].day)
           /\ out[j].cutoff = FirstStartOn(out[j].day) + 60 * 60000
      ELSE out[j].cutoff = FirstTs(out[j].day, "ON")

\* a row for a day without DRIVING on which a shift starts, its cutoff an
\* hour after the start and already on the next calendar day
C16_Witness ==
  /\ Ran
  /\ \E j \in 1..Len(out) :
       /\ ~HasDriving(out[j].day) /\ StartsOn(out[j].day) # {}
       /\ out[j].cutoff = out[j].details.start + 60 * 60000
       /\ out[j].cutoff \div DAY_MS > out[j].day

\* a row for a day without DRIVING that continues a shift started the day
\* before
C16_WitnessContinuation ==
  /\ Ran
  /\ \E j \in 1..Len(out) :
       /\ ~HasDriving(out[j].day) /\ StartsOn(out[j].day) = {}
       /\ out[j].details.start # NoTs
       /\ out[j].details.start \div DAY_MS = out[j].day - 1
       /\ out[j].cutoff = FirstTs(out[j].day, "ON")

\* a row for a day whose first DRIVING event follows an ON event
C16_WitnessDriving ==
  /\ Ran
  /\ \E j \in 1..Len(out) :
       /\ HasDriving(out[j].day)
       /\ DayEvents(out[j].day)[1].status = "ON"
       /\ out[j].cutoff > DayEvents(out[j].day)[1].ts


InSeq(q, x) == \E k \in 1..Len(q) : q[k] = x

\* C17: the calendar day of the anchor shift start is never listed as a
\* missing day in a row whose cutoff lies before the next detected shift
\* start (a shift starting Monday 22:00 and continuing through Tuesday:
\* Monday is not flagged when Tuesday's first DRIVING event is evaluated).
C17_StartDayExempt ==
  Ran =>
    \A j \in 1..Len(out) :
      (out[j].details.start # NoTs /\ SameShiftAt(out[j])) =>
        /\ ~InSeq(out[j].missing, out[j].details.start \div DAY_MS)
        /\ out[j].details.earliest # out[j].details.start \div DAY_MS

\* a row for the DRIVING day after the day the shift started at 22:00; the
\* start day is worked, not certified by the cutoff, and not listed
C17_Witness ==
  /\ Ran
  /\ \E j \in 1..Len(out) :
       /\ HasDriving(out[j].day)
       /\ out[j].details.start # NoTs
       /\ out[j].details.start = (out[j].day - 1) * DAY_MS + 22 * H
       /\ SameShiftAt(out[j])
       /\ WorkedOn(out[j].day - 1)
       /\ ~CertifiedBy(out[j].day - 1, out[j].cutoff)
       /\ ~InSeq(out[j].missing, out[j].day - 1)
       /\ out[j].verdict = "Qualified"


\* the verdict list of a run on the same workbooks at wall-clock time nw
VerdictsAt(nw) ==
  uniq(RunDays(dayOrder(DqEvents), 1, DqEvents, detectShiftStarts(DqEvents),
               books, nw, {}))

\* the text of the rows
Texts(rows) == [k \in 1..Len(rows) |-> <<rows[k].details, rows[k].verdict>>]

\* C18: for fixed duty events and certification records every run yields
\* the same certification verdict list, whatever the wall-clock time of the
\* run.
C18_VerdictsIndependentOfClock ==
  Ran => \A nw \in Nows : Texts(VerdictsAt(nw)) = Texts(out)


(* ------------------------------------------------------------------ *)
(* Hours engine: tail closure, streak, layover, emitted shifts         *)
(* ------------------------------------------------------------------ *)

LastEntry == timeline[Len(timeline)]
LastRow(rs) == rs[Len(rs)]
EndOfFileNotes == {NOTE_EOF_OFF, NOTE_NEAR_EOD}

C22_WitnessOnDuty ==
  /\ pc = "done"
  /\ results # <<>>
  /\ Duty(LastEntry.eff)
  /\ LastRow(results).end = LastEntry.ts
  /\ LastRow(results).start < LastRow(results).end
  /\ LastRow(results).note = NOTE_EOF_ON

\* the segments of the timeline that lie inside the row's shift
SegsOf(r) == {j \in 1..(Len(timeline) - 1) : InShift(j, r)}

\* the length of the run of ON/DRIVING segments a..b, or 0 when one of them
\* is not ON/DRIVING
RunMs(a, b) ==
  IF \A j \in a..b : Duty(timeline[j].eff)
  THEN timeline[b + 1].ts - timeline[a].ts ELSE 0

\* the longest unbroken run of ON/DRIVING time inside the row's shift
LongestOnRun(r) ==
  LET runs == {RunMs(a, b) : a \in SegsOf(r), b \in SegsOf(r)} \cup {0}
  IN CHOOSE x \in runs : \A y \in runs : y <= x

\* C23: a shift's row carries the 'Continuous ON/DRIVING' note if and only
\* if the longest unbroken run of ON/DRIVING time inside the shift, counted
\* from the shift's first segment on, exceeds 14 hours.
C23_ContinuousOnFlag ==
  \A k \in 1..Len(results) :
    results[k].contOn <=> LongestOnRun(results[k]) > 14 * 3600000

\* What the streak does measure: the longest run among the segments after
\* the shift's first one.
LongestOnRunAfterFirst(r) ==
  LET segs == {j \in SegsOf(r) : timeline[j].ts > r.start}
      runs == {RunMs(a, b) : a \in segs, b \in segs} \cup {0}
  IN CHOOSE x \in runs : \A y \in runs : y <= x

C23_StreakSkipsFirstSegment ==
  \A k \in 1..Len(results) :
    results[k].contOn <=> LongestOnRunAfterFirst(results[k]) > 14 * 3600000

\* C24: a shift's layover minutes are the total of the OFF segments inside
\* [start, end) that are at least 2 hours long and not near home; SLEEPER
\* segments, shorter OFF segments and near-home OFF segments add nothing.
C24_LayoverIsQualifyingOff ==
  \A k \in 1..Len(results) :
    results[k].layoverTotalMin =
      SumSegs(Len(timeline) - 1,
              LAMBDA j : /\ j \in SegsOf(results[k])
                         /\ timeline[j].eff = "OFF"
                         /\ ~timeline[j].home
                         /\ SegLen(j) >= MIN_LAYOVER_MS,
              LAMBDA j : RoundMin(SegLen(j)))

RowStarts(rs) == [k \in 1..Len(rs) |-> rs[k].start]

\* C25: every shift that is opened is emitted exactly once, in opening
\* order: the rows are those of the opened shifts, less the one still
\* active, and when the data has ended every opened shift has its row.
C25_EveryOpenedShiftEmittedOnce ==
  Started =>
    IF pc = "done" \/ ~shiftActive
    THEN RowStarts(results) = opened
    ELSE Append(RowStarts(results), shiftStart) = opened

(* ------------------------------------------------------------------ *)
(* Certification-gap evaluator: suppression, monotonicity, duplicates  *)
(* ------------------------------------------------------------------ *)

\* the calendar days the run evaluates: inside the look-back window and
\* with an ON or DRIVING event
EvaluatedDays ==
  {D \in {dateKey(DqEvents[k].ts) : k \in 1..Len(DqEvents)} :
     ~BeforeLookback(D, now) /\ hasShift(EventsOn(DqEvents, D))}

\* the evaluation of the calendar day D, whether or not its row is emitted
EvaluationOf(D) == DayRow(D, DqEvents, starts, books)

\* C27: suppressing repeat rows never hides a disqualification: when the
\* evaluation of any calendar day of a shift finds a non-exempt missing
\* prior day, the one row emitted for that shift start is 'Disqualified'.
C27_SuppressionHidesNoDisqualification ==
  Ran =>
    \A D \in EvaluatedDays :
      (EvaluationOf(D).details.start # NoTs
         /\ EvaluationOf(D).verdict = "Disqualified") =>
        \E j \in 1..Len(out) :
          /\ out[j].details.start = EvaluationOf(D).details.start
          /\ out[j].verdict = "Disqualified"

\* the certification rows of the workbooks, as <<workbook, row>> positions
CertPositions ==
  {p \in (1..Len(books)) \X (1..4 * MaxLen) :
     p[2] <= Len(books[p[1]]) /\ IsCert(books[p[1]][p[2]])}

\* the workbooks without the row at position p
BooksWithout(p) ==
  [books EXCEPT ![p[1]] = SubSeq(@, 1, p[2] - 1) \o SubSeq(@, p[2] + 1, Len(@))]

\* the verdict list of a run on the workbooks bks at the wall-clock time of
\* the run that was made
VerdictsOfBooks(bks) ==
  uniq(RunDays(dayOrder(BucketEvents(bks)), 1, BucketEvents(bks),
               detectShiftStarts(BucketEvents(bks)), bks, now, {}))

SeqSet(q) == {q[k] : k \in 1..Len(q)}

\* row r is no worse than row r0 of the same evaluation
NoWorse(r, r0) ==
  /\ r.details.start = r0.details.start
  /\ r.day = r0.day
  /\ SeqSet(r.missing) \subseteq SeqSet(r0.missing)
  /\ r0.verdict = "Qualified" => r.verdict = "Qualified"

\* C28: certification is monotone: with any one certification record taken
\* away the run yields the same rows, and no row of the run with the record
\* is disqualified where the row without it was qualified, or lists a
\* missing day the row without it did not list.
C28_CertificationMonotone ==
  Ran =>
    \A p \in CertPositions :
      LET before == VerdictsOfBooks(BooksWithout(p))
      IN /\ Len(out) = Len(before)
         /\ \A j \in 1..Len(out) : NoWorse(out[j], before[j])

\* a certification record without which a qualified row is disqualified
C28_Witness ==
  /\ Ran
  /\ \E p \in CertPositions :
       LET before == VerdictsOfBooks(BooksWithout(p))
       IN \E j \in 1..Len(out) :
            /\ j <= Len(before)
            /\ out[j].verdict = "Qualified"
            /\ before[j].verdict = "Disqualified"
            /\ before[j].details.start = out[j].details.start

\* C30: when overlapping files hold some duty events twice, with the same
\* timestamp and status, the certification-gap evaluator detects the shift
\* starts, and yields the verdict rows, of the input that holds each event
\* once.
C30_DuplicatesChangeNothing ==
  /\ dqpc \in {"done", "ran"} =>
       starts = detectShiftStarts(BucketEvents(SingleCopy(books)))
  /\ Ran => Texts(out) = Texts(VerdictsOfBooks(SingleCopy(books)))


(* ------------------------------------------------------------------ *)
(* Hours engine: the same logs in another form                         *)
(* ------------------------------------------------------------------ *)

\* both checks are done: prior holds the first, results the second
Rechecked == prior.ran /\ pc = "done"

\* some duty event lies in two workbooks of the selection
InTwoBatches(bks) ==
  /\ Len(bks) = 2
  /\ \E j \in 1..Len(bks[1]), k \in 1..Len(bks[2]) :
       bks[1][j] = bks[2][k] /\ isDuty(bks[1][j].status)

Totals(rows) ==
  [k \in 1..Len(rows) |->
     [start |-> rows[k].start, payableMin |-> rows[k].payableMin,
      sleeperMin |-> rows[k].sleeperMin,
      layoverTotalMin |-> rows[k].layoverTotalMin]]

\* C21: when an identical duty event (same driver, timestamp and status)
\* lies in two input batches, every shift's payable, sleeper and layover
\* minutes equal those computed from the input that holds one copy of it.
C21_NoDoubleCount ==
  (Rechecked /\ InTwoBatches(prior.books) /\ books = SingleCopy(prior.books))
    => Totals(prior.rows) = Totals(results)

\* no two rows of one workbook share a timestamp
DistinctTimestamps(bks) ==
  \A b \in 1..Len(bks) :
    \A j \in 1..Len(bks[b]), k \in 1..Len(bks[b]) :
      j # k => bks[b][j].ts # bks[b][k].ts

\* The part of C21 the engine keeps: the totals agree when no sheet holds
\* two rows with one timestamp.
C21_NoDoubleCountDistinctTimestamps ==
  (Rechecked /\ InTwoBatches(prior.books) /\ books = SingleCopy(prior.books)
     /\ DistinctTimestamps(books))
    => Totals(prior.rows) = Totals(results)

ShiftFacts(rows) ==
  [k \in 1..Len(rows) |->
     [start |-> rows[k].start, end |-> rows[k].end,
      payableMin |-> rows[k].payableMin,
      layoverTotalMin |-> rows[k].layoverTotalMin,
      mealStatus |-> rows[k].mealStatus, note |-> rows[k].note]]

\* C26: inserting a record that carries no duty status, and so takes the
\* effective status of the entry before it, changes no shift's start, end,
\* payable minutes, layover minutes, meal-break verdict or near-reset note.
C26_FillerChangesNothing ==
  (Rechecked /\ books # prior.books /\ books = WithoutFillers(prior.books))
    => ShiftFacts(prior.rows) = ShiftFacts(results)

AliasFacts(rows) ==
  [k \in 1..Len(rows) |->
     [start |-> rows[k].start, end |-> rows[k].end,
      payableMin |-> rows[k].payableMin, sleeperMin |-> rows[k].sleeperMin,
      deadline5 |-> rows[k].deadline5, deadline10 |-> rows[k].deadline10,
      mealStatus |-> rows[k].mealStatus]]

\* the time of the shift's segments that onDutyDeadline counts, and the
\* time of those that are payable
DeadlineMsIn(r) ==
  SumSegs(Len(timeline) - 1,
          LAMBDA j : InShift(j, r) /\ DeadlineCounts(timeline[j].eff), SegLen)
PayableMsIn(r) ==
  SumSegs(Len(timeline) - 1,
          LAMBDA j : InShift(j, r) /\ isOnOrD(timeline[j].eff), SegLen)

\* C29: status aliases are handled uniformly: writing an event's status as
\* another member of its set (D/DRIVE/DRIVING, SB/SLEEPER, the ON aliases)
\* changes no shift boundary, no payable or sleeper minutes and no meal
\* deadline or verdict, and the on-duty time counted toward the meal
\* deadlines over a whole shift equals the shift's payable time.
C29_AliasesUniform ==
  /\ (Rechecked /\ books # prior.books /\ books = CanonicalBooks(prior.books))
       => AliasFacts(prior.rows) = AliasFacts(results)
  /\ pc = "done" =>
       \A k \in 1..Len(results) :
         DeadlineMsIn(results[k]) = PayableMsIn(results[k])

====
